---- MODULE Spec2Model ----
(***************************************************************************)
(* Model of the b-roll catalog: the filesystem scanner (scanner.py), the   *)
(* catalog store with its lexical and vector indexes (db.py) and the       *)
(* per-file ingestion loop of the `process` command (cli.py).              *)
(*                                                                         *)
(* Python values are modelled as strings ("None" is Python's None and SQL  *)
(* NULL), dicts as functions from key strings to values, row ids as        *)
(* integers.                                                               *)
(***************************************************************************)
EXTENDS Integers, Sequences, FiniteSets, TLC

VARIABLES
    tree,             \* the media tree: relative path -> [content, readable]
    conn,             \* the store as seen through the open connection
    disk,             \* the committed store (what a fresh connection sees)
    pc,               \* "idle" | "running": position of the `process` command
    force,            \* --force flag of the current run
    scan_only,        \* --scan-only flag of the current run
    existing_hashes,  \* snapshot of get_all_file_hashes() taken at run start
    new_files,        \* work list of the run, as scan_drive returned it
    idx,              \* 1-based position of the for loop in new_files
    processed,        \* `processed` counter of the run
    errors,           \* `errors` counter of the run
    video_info,       \* the dict of the file the loop handled last
    log,              \* for that file: where the try block raised
    errored,          \* paths for which a stage raised since the tree or
                      \* the store was last changed from outside a run
    outcome           \* result of the last store call or command

vars == <<tree, conn, disk, pc, force, scan_only, existing_hashes, new_files,
          idx, processed, errors, video_info, log, errored, outcome>>

runVars == <<pc, force, scan_only, existing_hashes, new_files, idx,
             processed, errors, video_info, log>>

None == "None"

(***************************************************************************)
(* Bounds                                                                  *)
(***************************************************************************)
MaxId == 2          \* rows ever inserted (AUTOINCREMENT values handed out)

(***************************************************************************)
(* Python dict helpers                                                     *)
(***************************************************************************)
\* dict.get(k): None when the key is missing
Get(d, k) == IF k \in DOMAIN d THEN d[k] ELSE None

\* d.update(u): keys of u override keys of d
Update(d, u) == u @@ d

\* Python truthiness of a string / None value
Truthy(v) == v # None /\ v # ""

(***************************************************************************)
(* config.py                                                               *)
(***************************************************************************)
VIDEO_EXTENSIONS == {".mp4", ".mov", ".m4v", ".MP4", ".MOV"}
LRF_EXTENSION == ".lrf"
DB_FILENAME == "broll_catalog.db"
EMBEDDING_DIMENSIONS == 768

(***************************************************************************)
(* scanner.py                                                              *)
(***************************************************************************)
SKIP_DIRS == {".broll_thumbs", ".Spotlight-V100", ".fseventsd", ".Trashes",
              ".DocumentRevisions-V100", "__pycache__", ".git"}

chunk_size == 65536

\* The files of the media root, in os.walk order with sorted directory and
\* file names (root files first, then ".Trashes", "DCIM", "clips").
TreeFiles == <<
    [relative |-> "notes.txt",        dirs |-> <<>>,
     name |-> "notes.txt",   stem |-> "notes",   suffix |-> ".txt"],
    [relative |-> ".Trashes/old.mp4", dirs |-> <<".Trashes">>,
     name |-> "old.mp4",     stem |-> "old",     suffix |-> ".mp4"],
    [relative |-> "DCIM/._IMG_1.MOV", dirs |-> <<"DCIM">>,
     name |-> "._IMG_1.MOV", stem |-> "._IMG_1", suffix |-> ".MOV"],
    [relative |-> "DCIM/IMG_1.MOV",   dirs |-> <<"DCIM">>,
     name |-> "IMG_1.MOV",   stem |-> "IMG_1",   suffix |-> ".MOV"],
    [relative |-> "clips/b.mp4",      dirs |-> <<"clips">>,
     name |-> "b.mp4",       stem |-> "b",       suffix |-> ".mp4"] >>

Rels == {TreeFiles[i].relative : i \in DOMAIN TreeFiles}

\* str.lower() / str.upper() on the names of the tree
Lower(s) == CASE s = ".MOV" -> ".mov" [] s = ".MP4" -> ".mp4" [] OTHER -> s
Upper(s) == CASE s = "b" -> "B" [] s = "old" -> "OLD" [] s = "notes" -> "NOTES"
              [] s = "clips" -> "CLIPS" [] s = ".Trashes" -> ".TRASHES"
              [] s = "b.mp4" -> "B.MP4" [] s = "old.mp4" -> "OLD.MP4"
              [] s = "notes.txt" -> "NOTES.TXT"
              [] OTHER -> s

\* str.startswith(p) on the names of the tree
StartsWith(s, p) ==
    <<s, p>> \in { <<".Trashes", ".">>, <<"._IMG_1.MOV", ".">>,
                   <<"._IMG_1.MOV", "._">>, <<"._IMG_1", ".">>,
                   <<"._IMG_1", "._">>, <<"IMG_1", "IMG_">>,
                   <<".TRASHES", ".">> }

\* `sub in s` on the upper-cased path parts of the tree
Contains(s, sub) == <<s, sub>> \in { <<"DCIM", "DCIM">> }

\* File contents are sequences of chunk_size-byte blocks.
FileSize(content) == chunk_size * Len(content)

\* hashlib.md5 over the bytes fed to it; the digest is kept symbolic and
\* is determined by the concatenation of the updates.
Md5(bytes) == "md5(" \o bytes \o ")"

compute_file_hash(content) ==
    LET size == FileSize(content)
        head == content[1]
        tail == IF size > chunk_size * 2 THEN content[Len(content)] ELSE ""
    IN  Md5(head \o tail \o ToString(size))

_is_video_file(f) ==
    Lower(f.suffix) \in {Lower(ext) : ext \in VIDEO_EXTENSIONS}

_is_lrf_file(f) == Lower(f.suffix) = Lower(LRF_EXTENSION)

_should_skip_dir(dirname) ==
    dirname \in SKIP_DIRS \/ StartsWith(dirname, ".")

detect_source_device(f) ==
    LET name  == Upper(f.stem)
        parts == {Upper(f.dirs[i]) : i \in DOMAIN f.dirs} \cup {Upper(f.name)}
    IN  IF StartsWith(name, "DJI_") THEN "dji_pocket3"
        ELSE IF StartsWith(name, "IMG_") \/ StartsWith(name, "RPREPLAY")
             THEN "iphone"
        ELSE IF \E p \in parts : Contains(p, "DJI") THEN "dji_pocket3"
        ELSE IF \E p \in parts : Contains(p, "DCIM") THEN "iphone"
        ELSE "unknown"

\* os.walk with `dirnames[:]` pruned: a file is visited when none of its
\* ancestor directories is skipped.
Walked(f) == \A i \in DOMAIN f.dirs : ~_should_skip_dir(f.dirs[i])

_build_lrf_map(t) ==
    LET lrfs == {i \in DOMAIN TreeFiles :
                    /\ Walked(TreeFiles[i])
                    /\ ~StartsWith(TreeFiles[i].name, "._")
                    /\ _is_lrf_file(TreeFiles[i])}
    IN  [s \in {TreeFiles[i].stem : i \in lrfs} |->
            (CHOOSE i \in lrfs : TreeFiles[i].stem = s /\
                \A j \in lrfs : TreeFiles[j].stem = s => j <= i)]

\* Mutant: the recorded fingerprint is not compared.
AlreadyProcessed_PathOnly(existing, relative, file_hash) ==
    relative \in DOMAIN existing

\* `relative in existing_hashes and existing_hashes[relative] == file_hash`
AlreadyProcessed(existing, relative, file_hash) ==
    relative \in DOMAIN existing /\ existing[relative] = file_hash

\* Mutant: the force flag is not consulted.
SkipUnchanged_IgnoreForce(frc, existing, relative, file_hash) ==
    relative \in DOMAIN existing /\ existing[relative] = file_hash

\* `if not force: if <already processed>: continue`
SkipUnchanged(frc, existing, relative, file_hash) ==
    ~frc /\ AlreadyProcessed(existing, relative, file_hash)

\* Mutant: an unreadable file is fingerprinted like a readable one.
Emitted_NoReadCheck(t, existing, frc, f) ==
    /\ Walked(f)
    /\ _is_video_file(f)
    /\ ~StartsWith(f.name, "._")
    /\ f.name # DB_FILENAME
    /\ ~SkipUnchanged(frc, existing, f.relative,
                      compute_file_hash(t[f.relative].content))

\* One iteration of the inner loop of scan_drive: TRUE when the file is
\* appended to new_files.
Emitted(t, existing, frc, f) ==
    /\ Walked(f)
    /\ _is_video_file(f)
    /\ ~StartsWith(f.name, "._")
    /\ f.name # DB_FILENAME
    /\ t[f.relative].readable                   \* else OSError: continue
    /\ ~SkipUnchanged(frc, existing, f.relative,
                      compute_file_hash(t[f.relative].content))

ScanResult(t, f) ==
    LET lrf_map == _build_lrf_map(t)
    IN  [absolute_path |-> "/root/" \o f.relative,
         file_path     |-> f.relative,
         file_name     |-> f.name,
         file_size     |-> ToString(FileSize(t[f.relative].content)),
         file_hash     |-> compute_file_hash(t[f.relative].content),
         source_device |-> detect_source_device(f),
         lrf_path      |-> IF f.stem \in DOMAIN lrf_map
                           THEN TreeFiles[lrf_map[f.stem]].relative
                           ELSE None]

RECURSIVE ScanFrom(_, _, _, _)
ScanFrom(t, existing, frc, i) ==
    IF i > Len(TreeFiles) THEN <<>>
    ELSE (IF Emitted(t, existing, frc, TreeFiles[i])
          THEN <<ScanResult(t, TreeFiles[i])>> ELSE <<>>)
         \o ScanFrom(t, existing, frc, i + 1)

scan_drive(t, existing, frc) == ScanFrom(t, existing, frc, 1)

(***************************************************************************)
(* db.py: schema, triggers and write operations                            *)
(***************************************************************************)
\* Columns of `videos` that insert_video fills with video.get(<column>).
\* processed_at and created_at (wall-clock timestamps) are left out.
GetColumns == {"file_size", "source_device", "lrf_path", "duration_seconds",
               "resolution", "width", "height", "fps", "codec",
               "creation_date", "gps_latitude", "gps_longitude",
               "gps_location_name", "scene_description", "mood",
               "camera_movement", "time_of_day", "thumbnail_path"}

Columns == GetColumns \cup {"id", "file_path", "file_name", "file_hash", "tags"}

\* Columns mirrored into videos_fts.
FtsColumns == {"file_name", "scene_description", "tags", "mood",
               "camera_movement", "time_of_day", "gps_location_name"}

\* Python lists of tags are written "list:<items>".
TagLists == {"list:", "list:beach,sunset"}

isinstance_list(v) == v \in TagLists

\* json.dumps of a list of tags
json_dumps(v) ==
    CASE v = "list:" -> "[]"
      [] v = "list:beach,sunset" -> "[\"beach\", \"sunset\"]"
      [] OTHER -> v

\* ' '.join(tags)
JoinTags(v) ==
    CASE v = "list:" -> ""
      [] v = "list:beach,sunset" -> "beach sunset"
      [] OTHER -> v

\* Embeddings are written "vec<dimensions>:<name>"; "vec0" is the empty list.
Embeddings == {"vec768:a", "vec768:b", "vec3:a", "vec0"}

Dim(e) == CASE e \in {"vec768:a", "vec768:b"} -> 768
            [] e = "vec3:a" -> 3
            [] OTHER -> 0

EmptyDb == [videos |-> <<>>, fts |-> <<>>, vec |-> <<>>, seq |-> 0]

Remove(f, k) == [x \in DOMAIN f \ {k} |-> f[x]]

Ids(db) == DOMAIN db.videos

IdsOfPath(db, path) == {i \in Ids(db) : db.videos[i].file_path = path}

\* Database.get_all_file_hashes
get_all_file_hashes(db) ==
    [p \in {db.videos[i].file_path : i \in Ids(db)} |->
        db.videos[CHOOSE i \in Ids(db) : db.videos[i].file_path = p].file_hash]

\* The row of videos_fts written for a row of videos.
FtsRow(row) == [c \in FtsColumns |-> row[c]]

\* Trigger videos_ai
videos_ai(fts, new) == (new.id :> FtsRow(new)) @@ fts

\* Trigger videos_ad
videos_ad(fts, old) == Remove(fts, old.id)

\* Mutant: the update trigger re-indexes the old values.
videos_au_KeepOld(fts, old, new) == (old.id :> FtsRow(old)) @@ fts

\* Trigger videos_au: 'delete' of the old row, insert of the new row
videos_au(fts, old, new) == (new.id :> FtsRow(new)) @@ Remove(fts, old.id)

\* Mutant: file_path is not declared UNIQUE.
ViolatesConstraint_NoUnique(videos, row) ==
    row.file_path = None \/ row.file_name = None \/ row.file_hash = None

\* file_path TEXT UNIQUE NOT NULL, file_name / file_hash NOT NULL,
\* checked for `row` against the other rows of the table.
ViolatesConstraint(videos, row) ==
    \/ row.file_path = None \/ row.file_name = None \/ row.file_hash = None
    \/ \E i \in DOMAIN videos : i # row.id /\ videos[i].file_path = row.file_path

\* Database._insert_embedding: the INSERT into videos_vec raises when the
\* blob does not have the declared dimensions or the key already exists.
InsertEmbeddingFails(vec, video_id, embedding) ==
    Dim(embedding) # EMBEDDING_DIMENSIONS \/ video_id \in DOMAIN vec

_insert_embedding(vec, video_id, embedding) == (video_id :> embedding) @@ vec

InsertParams(video, id) ==
    LET tags == IF isinstance_list(Get(video, "tags"))
                THEN json_dumps(video["tags"]) ELSE Get(video, "tags")
    IN  [c \in Columns |->
            CASE c = "id"        -> id
              [] c = "file_path" -> video["relative_path"]
              [] c = "file_name" -> video["file_name"]
              [] c = "file_hash" -> video["file_hash"]
              [] c = "tags"      -> tags
              [] OTHER           -> Get(video, c)]

\* Database.insert_video on connection view c with committed store d.
\* Result: the new connection view, the new committed store, the exception
\* raised ("None" when the call returned) and the returned id.
insert_video(c, d, video) ==
    IF ~({"relative_path", "file_name", "file_hash"} \subseteq DOMAIN video)
    THEN [conn |-> c, disk |-> d, raised |-> "KeyError", ret |-> 0]
    ELSE
    LET video_id == c.seq + 1
        row == InsertParams(video, video_id)
        embedding == Get(video, "embedding")
        c1 == [c EXCEPT !.videos = (video_id :> row) @@ c.videos,
                        !.fts = videos_ai(c.fts, row),
                        !.seq = video_id]
    IN  IF ViolatesConstraint(c.videos, row)
        THEN [conn |-> c, disk |-> d, raised |-> "IntegrityError", ret |-> 0]
        ELSE IF embedding # None /\ Dim(embedding) > 0
        THEN IF InsertEmbeddingFails(c1.vec, video_id, embedding)
             THEN [conn |-> c1, disk |-> d,
                   raised |-> "OperationalError", ret |-> 0]
             ELSE LET c2 == [c1 EXCEPT !.vec =
                                _insert_embedding(c1.vec, video_id, embedding)]
                  IN  [conn |-> c2, disk |-> c2, raised |-> None,
                       ret |-> video_id]
        ELSE [conn |-> c1, disk |-> c1, raised |-> None, ret |-> video_id]

\* Mutant: the UPDATE has no WHERE clause.
update_video_NoWhere(c, d, file_path, updates) ==
    LET ups == IF "tags" \in DOMAIN updates /\ isinstance_list(updates["tags"])
               THEN [updates EXCEPT !["tags"] = json_dumps(updates["tags"])]
               ELSE updates
        hit == Ids(c)
        NewRow(i) == [col \in Columns |->
                        IF col \in DOMAIN ups THEN ups[col]
                        ELSE c.videos[i][col]]
        c1 == [c EXCEPT
                 !.videos = [i \in Ids(c) |->
                                IF i \in hit THEN NewRow(i) ELSE c.videos[i]],
                 !.fts = IF hit = {} THEN c.fts
                         ELSE LET i == CHOOSE i \in hit : TRUE
                              IN  videos_au(c.fts, c.videos[i], NewRow(i))]
    IN  IF DOMAIN ups = {} \/ ~(DOMAIN ups \subseteq Columns)
        THEN [conn |-> c, disk |-> d, raised |-> "OperationalError", ret |-> 0]
        ELSE IF \E i \in hit : ViolatesConstraint(c.videos, NewRow(i))
        THEN [conn |-> c, disk |-> d, raised |-> "IntegrityError", ret |-> 0]
        ELSE [conn |-> c1, disk |-> c1, raised |-> None, ret |-> 0]

\* Database.update_video; file_path is unique, so the UPDATE changes at
\* most one row and its trigger runs at most once.
update_video(c, d, file_path, updates) ==
    LET ups == IF "tags" \in DOMAIN updates /\ isinstance_list(updates["tags"])
               THEN [updates EXCEPT !["tags"] = json_dumps(updates["tags"])]
               ELSE updates
        hit == IdsOfPath(c, file_path)
        NewRow(i) == [col \in Columns |->
                        IF col \in DOMAIN ups THEN ups[col]
                        ELSE c.videos[i][col]]
        c1 == [c EXCEPT
                 !.videos = [i \in Ids(c) |->
                                IF i \in hit THEN NewRow(i) ELSE c.videos[i]],
                 !.fts = IF hit = {} THEN c.fts
                         ELSE LET i == CHOOSE i \in hit : TRUE
                              IN  videos_au(c.fts, c.videos[i], NewRow(i))]
    IN  IF DOMAIN ups = {} \/ ~(DOMAIN ups \subseteq Columns)
        THEN [conn |-> c, disk |-> d, raised |-> "OperationalError", ret |-> 0]
        ELSE IF \E i \in hit : ViolatesConstraint(c.videos, NewRow(i))
        THEN [conn |-> c, disk |-> d, raised |-> "IntegrityError", ret |-> 0]
        ELSE [conn |-> c1, disk |-> c1, raised |-> None, ret |-> 0]

\* Database.delete_video
delete_video(c, d, video_id) ==
    LET c1 == IF video_id \in Ids(c)
              THEN [c EXCEPT !.videos = Remove(c.videos, video_id),
                             !.fts = videos_ad(c.fts, c.videos[video_id])]
              ELSE c
        c2 == [c1 EXCEPT !.vec = Remove(c1.vec, video_id)]
    IN  [conn |-> c2, disk |-> c2, raised |-> None, ret |-> 0]

\* Database.update_embedding
update_embedding(c, d, video_id, embedding) ==
    LET c1 == [c EXCEPT !.vec = Remove(c.vec, video_id)]
        c2 == [c1 EXCEPT !.vec = _insert_embedding(c1.vec, video_id, embedding)]
    IN  IF InsertEmbeddingFails(c1.vec, video_id, embedding)
        THEN [conn |-> c1, disk |-> d, raised |-> "OperationalError", ret |-> 0]
        ELSE [conn |-> c2, disk |-> c2, raised |-> None, ret |-> 0]

(***************************************************************************)
(* embeddings.py, analyzer.py and the collaborators' possible results      *)
(***************************************************************************)
RECURSIVE Join(_, _)
\* sep.join(parts)
Join(parts, sep) ==
    IF parts = <<>> THEN ""
    ELSE IF Len(parts) = 1 THEN parts[1]
    ELSE parts[1] \o sep \o Join(Tail(parts), sep)

\* str.strip() leaves nothing
Blank(s) == s \in {"", " "}

build_searchable_text(video) ==
    LET desc        == Get(video, "scene_description")
        tags        == Get(video, "tags")
        mood        == Get(video, "mood")
        movement    == Get(video, "camera_movement")
        time_of_day == Get(video, "time_of_day")
        location    == Get(video, "gps_location_name")
        device      == Get(video, "source_device")
        parts ==
            (IF Truthy(desc) THEN <<desc>> ELSE <<>>)
         \o (IF isinstance_list(tags) THEN <<JoinTags(tags)>>
             ELSE IF tags # None THEN <<tags>> ELSE <<>>)
         \o (IF Truthy(mood) /\ mood # "unknown"
             THEN <<"mood: " \o mood>> ELSE <<>>)
         \o (IF Truthy(movement) /\ movement # "unknown"
             THEN <<"camera: " \o movement>> ELSE <<>>)
         \o (IF Truthy(time_of_day) /\ time_of_day # "unknown"
             THEN <<"time: " \o time_of_day>> ELSE <<>>)
         \o (IF Truthy(location) THEN <<"location: " \o location>> ELSE <<>>)
         \o (IF device = "dji_pocket3" THEN <<"gimbal camera">>
             ELSE IF device = "iphone" THEN <<"smartphone camera">> ELSE <<>>)
    IN  Join(parts, " | ")

\* analyzer._empty_analysis
_empty_analysis ==
    [scene_description |-> "", tags |-> "list:", mood |-> "unknown",
     camera_movement |-> "unknown", time_of_day |-> "unknown"]

\* A validated answer of the vision model.
GoodAnalysis ==
    [scene_description |-> "a beach at sunset", tags |-> "list:beach,sunset",
     mood |-> "calm", camera_movement |-> "pan", time_of_day |-> "sunset"]

\* analyze_frames never raises: it returns the parsed answer or, when the
\* call to the model fails, _empty_analysis().
AnalysisResults == {GoodAnalysis, _empty_analysis}

\* extract_all_metadata: the dicts it returns.
NoMetadata == [gps_latitude |-> None, gps_longitude |-> None]

FullMetadata ==
    [duration_seconds |-> "12.5", width |-> "1920", height |-> "1080",
     resolution |-> "1920x1080", codec |-> "h264", fps |-> "29.97",
     creation_date |-> "2024-01-15T14:30:22",
     gps_latitude |-> "48.85", gps_longitude |-> "2.35",
     gps_location_name |-> "Paris, FR"]

MetadataResults == {NoMetadata, FullMetadata}

\* The collaborator raised instead of returning a dict.
Raised == [exception |-> "Exception"]

ERROR_DESCRIPTION ==
    "ERROR: Could not process video - file may be corrupted or incomplete"

AnalysisNulls ==
    [scene_description |-> None, tags |-> None, mood |-> None,
     camera_movement |-> None, time_of_day |-> None, thumbnail_path |-> None]

thumbs_dir == "/root/.broll/thumbs"

(***************************************************************************)
(* cli.py: one iteration of the for loop of `process`                      *)
(***************************************************************************)
\* The try block up to (not including) "Step 5: Save to database".
\* meta, frames, analysis, emb are what the collaborators do for this file.
\* Result: the video_info dict when the block stopped, the stage whose
\* exception stopped it ("None" when none did), whether the vision model
\* answered, and the searchable text when it was built.
TryStages(v0, so, meta, frames, analysis, emb) ==
    IF meta = Raised THEN [info |-> v0, raised_in |-> "metadata",
                            analysis |-> "not_run", search_text |-> None]
    ELSE
    LET v1 == Update(v0, meta) IN
    IF so THEN [info |-> Update(v1, AnalysisNulls), raised_in |-> None,
                analysis |-> "not_run", search_text |-> None]
    ELSE IF frames = "raise" THEN [info |-> v1, raised_in |-> "frames",
                                   analysis |-> "not_run",
                                   search_text |-> None]
    ELSE
    LET v2 == Update(v1, [thumbnail_path |->
                            thumbs_dir \o "/" \o v1["file_hash"] \o ".jpg"])
        v3 == Update(v2, analysis)
        how == IF analysis = _empty_analysis THEN "failed" ELSE "ok"
        search_text == build_searchable_text(v3)
    IN  IF Blank(search_text)
        THEN [info |-> v3, raised_in |-> None, analysis |-> how,
              search_text |-> search_text]
        ELSE IF emb = "raise"
        THEN [info |-> v3, raised_in |-> "embedding", analysis |-> how,
              search_text |-> search_text]
        ELSE [info |-> Update(v3, [embedding |-> emb]), raised_in |-> None,
              analysis |-> how, search_text |-> search_text]

\* The whole loop body: try block, insert_video, and the except handler
\* with its second insert_video whose exception is swallowed.
LoopBody(c, d, v0, so, meta, frames, analysis, emb) ==
    LET t   == TryStages(v0, so, meta, frames, analysis, emb)
        ins == IF t.raised_in = None THEN insert_video(c, d, t.info)
               ELSE [conn |-> c, disk |-> d, raised |-> None, ret |-> 0]
        failed == t.raised_in # None \/ ins.raised # None
        verr == Update(t.info, [AnalysisNulls EXCEPT
                                  !.scene_description = ERROR_DESCRIPTION])
        again == insert_video(ins.conn, ins.disk, verr)
    IN  IF ~failed
        THEN [conn |-> ins.conn, disk |-> ins.disk, info |-> t.info,
              processed |-> 1, errors |-> 0,
              log |-> [raised_in |-> None, analysis |-> t.analysis,
                       search_text |-> t.search_text, saved |-> TRUE]]
        ELSE [conn |-> again.conn, disk |-> again.disk, info |-> verr,
              processed |-> 0, errors |-> 1,
              log |-> [raised_in |-> IF t.raised_in # None THEN t.raised_in
                                     ELSE "insert_video",
                       analysis |-> t.analysis,
                       search_text |-> t.search_text,
                       saved |-> again.raised = None]]

(***************************************************************************)
(* Inputs                                                                  *)
(***************************************************************************)
\* Contents a video file of the tree can have (blocks of chunk_size bytes).
Contents == { <<"a">>, <<"a", "x", "b">> }

\* The files of the tree whose content changes.
VideoRels == {"DCIM/IMG_1.MOV", "clips/b.mp4"}

\* The file of the tree that can become unreadable (the first one walked).
UnreadableRels == {"DCIM/IMG_1.MOV"}

FileOf(rel) == TreeFiles[CHOOSE i \in DOMAIN TreeFiles :
                            TreeFiles[i].relative = rel]

Hashes == {compute_file_hash(c) : c \in Contents}

\* Arguments of direct insert_video calls.
InsertInputs ==
    LET base(p, h) == [relative_path |-> p, file_name |-> FileOf(p).name,
                       file_hash |-> h,
                       source_device |-> detect_source_device(FileOf(p))]
    IN  UNION { { base(p, h),
                  Update(base(p, h), Update(GoodAnalysis,
                                            [embedding |-> "vec768:a"])),
                  Update(base(p, h), Update(GoodAnalysis,
                                            [embedding |-> "vec3:a"])) }
                : <<p, h>> \in VideoRels \X Hashes }

\* `updates` arguments of direct update_video calls; the first is the one
\* update_video_location of the web front end passes.
UpdateInputs ==
    { [gps_latitude |-> "45.76", gps_longitude |-> "4.83",
       gps_location_name |-> "Lyon, FR"],
      [scene_description |-> "edited", tags |-> "list:"] }
    \cup { [file_path |-> p] : p \in VideoRels }

\* Arguments of insert_video when only the store is exercised.
StoreInputs ==
    {v \in InsertInputs : v["file_hash"] = compute_file_hash(<<"a">>)}

\* The store writes that accompany pipeline runs: fully analysed entries
\* and renames.
SeedInputs == {v \in InsertInputs : Get(v, "embedding") = "vec768:a"}

SeedUpdates == { [file_path |-> p] : p \in VideoRels }

UpdateEmbeddingInputs == {"vec768:b", "vec3:a"}

(***************************************************************************)
(* Initial state and actions                                               *)
(***************************************************************************)
NoInfo == [file_path |-> None]
NoLog == [raised_in |-> None, analysis |-> "not_run", search_text |-> None,
          saved |-> FALSE]

Init ==
    /\ tree = [r \in Rels |-> [content |-> <<"a">>, readable |-> TRUE]]
    /\ conn = EmptyDb
    /\ disk = EmptyDb
    /\ pc = "idle"
    /\ force = FALSE
    /\ scan_only = FALSE
    /\ existing_hashes = <<>>
    /\ new_files = <<>>
    /\ idx = 1
    /\ processed = 0
    /\ errors = 0
    /\ video_info = NoInfo
    /\ log = NoLog
    /\ errored = {}
    /\ outcome = [op |-> "init", raised |-> None, ret |-> 0]

Result(op, r) == [op |-> op, raised |-> r.raised, ret |-> r.ret]

\* A file of the tree is overwritten.
WriteFile(rel, content) ==
    /\ pc = "idle"
    /\ tree[rel].content # content
    /\ tree' = [tree EXCEPT ![rel].content = content]
    /\ errored' = {}
    /\ UNCHANGED <<conn, disk, runVars, outcome>>

\* A file of the tree becomes unreadable or readable again.
SetReadable(rel, b) ==
    /\ pc = "idle"
    /\ tree[rel].readable # b
    /\ tree' = [tree EXCEPT ![rel].readable = b]
    /\ errored' = {}
    /\ UNCHANGED <<conn, disk, runVars, outcome>>

\* Database.insert_video called on the open connection.
InsertVideo(video) ==
    /\ pc = "idle"
    /\ conn.seq < MaxId
    /\ LET r == insert_video(conn, disk, video)
       IN  /\ conn' = r.conn
           /\ disk' = r.disk
           /\ outcome' = Result("insert_video", r)
    /\ errored' = {}
    /\ UNCHANGED <<tree, runVars>>

\* Database.update_video called on the open connection.
UpdateVideo(file_path, updates) ==
    /\ pc = "idle"
    /\ LET r == update_video(conn, disk, file_path, updates)
       IN  /\ conn' = r.conn
           /\ disk' = r.disk
           /\ outcome' = Result("update_video", r)
    /\ errored' = {}
    /\ UNCHANGED <<tree, runVars>>

\* Database.delete_video called on the open connection.
DeleteVideo(video_id) ==
    /\ pc = "idle"
    /\ LET r == delete_video(conn, disk, video_id)
       IN  /\ conn' = r.conn
           /\ disk' = r.disk
           /\ outcome' = Result("delete_video", r)
    /\ errored' = {}
    /\ UNCHANGED <<tree, runVars>>

\* Database.update_embedding called on the open connection.
UpdateEmbedding(video_id, embedding) ==
    /\ pc = "idle"
    /\ LET r == update_embedding(conn, disk, video_id, embedding)
       IN  /\ conn' = r.conn
           /\ disk' = r.disk
           /\ outcome' = Result("update_embedding", r)
    /\ errored' = {}
    /\ UNCHANGED <<tree, runVars>>

\* Database.close followed by connect: uncommitted changes are rolled back.
Close ==
    /\ pc = "idle"
    /\ conn # disk
    /\ conn' = disk
    /\ outcome' = [op |-> "close", raised |-> None, ret |-> 0]
    /\ UNCHANGED <<tree, disk, runVars, errored>>

\* `process` up to the for loop: opens the store, snapshots the known
\* fingerprints, scans; returns at once when the work list is empty.
ProcessScan(frc, so) ==
    /\ pc = "idle"
    /\ LET existing == get_all_file_hashes(disk)
           found == scan_drive(tree, existing, frc)
       IN  IF found = <<>>
           THEN /\ outcome' = [op |-> "process", raised |-> None, ret |-> 0]
                /\ UNCHANGED runVars
           ELSE /\ pc' = "running"
                /\ force' = frc
                /\ scan_only' = so
                /\ existing_hashes' = existing
                /\ new_files' = found
                /\ idx' = 1
                /\ processed' = 0
                /\ errors' = 0
                /\ video_info' = NoInfo
                /\ log' = NoLog
                /\ outcome' = [op |-> "scan", raised |-> None,
                               ret |-> Len(found)]
    /\ conn' = disk
    /\ UNCHANGED <<tree, disk, errored>>

\* One iteration of the for loop over new_files.
ProcessFile ==
    /\ pc = "running"
    /\ idx <= Len(new_files)
    /\ \E meta \in MetadataResults \cup {Raised}, frames \in {"ok", "raise"},
          analysis \in AnalysisResults, emb \in {"vec768:a", "raise"} :
          LET r == LoopBody(conn, disk, new_files[idx], scan_only,
                            meta, frames, analysis, emb)
          IN  /\ conn' = r.conn
              /\ disk' = r.disk
              /\ video_info' = r.info
              /\ processed' = processed + r.processed
              /\ errors' = errors + r.errors
              /\ log' = r.log
              /\ errored' = IF r.log.raised_in \in
                                    {"metadata", "frames", "embedding"}
                            THEN errored \cup {new_files[idx].file_path}
                            ELSE errored
    /\ idx' = idx + 1
    /\ outcome' = [op |-> "file", raised |-> None, ret |-> idx]
    /\ UNCHANGED <<tree, pc, force, scan_only, existing_hashes, new_files>>

\* The summary after the loop and the exit of the `with` block.
ProcessSummary ==
    /\ pc = "running"
    /\ idx > Len(new_files)
    /\ pc' = "idle"
    /\ conn' = disk
    /\ force' = FALSE
    /\ scan_only' = FALSE
    /\ existing_hashes' = <<>>
    /\ new_files' = <<>>
    /\ idx' = 1
    /\ video_info' = NoInfo
    /\ log' = NoLog
    /\ outcome' = [op |-> "process", raised |-> None,
                   ret |-> processed + errors]
    /\ processed' = 0
    /\ errors' = 0
    /\ UNCHANGED <<tree, disk, errored>>

\* The `process` run is killed inside the for loop, before the iteration
\* for new_files[idx] has committed: the connection is lost with whatever
\* it had not committed.  An iteration writes to the store only in its
\* final insert_video, so a kill anywhere inside it leaves the store as a
\* kill at its start does.
Terminate ==
    /\ pc = "running"
    /\ pc' = "idle"
    /\ conn' = disk
    /\ force' = FALSE
    /\ scan_only' = FALSE
    /\ existing_hashes' = <<>>
    /\ new_files' = <<>>
    /\ idx' = 1
    /\ video_info' = NoInfo
    /\ log' = NoLog
    /\ outcome' = [op |-> "terminated", raised |-> None, ret |-> 0]
    /\ processed' = 0
    /\ errors' = 0
    /\ UNCHANGED <<tree, disk, errored>>

\* Pipeline runs over a changing tree, interleaved with store writes.
Next ==
    \/ \E rel \in VideoRels, c \in Contents : WriteFile(rel, c)
    \/ \E rel \in UnreadableRels, b \in BOOLEAN : SetReadable(rel, b)
    \/ \E v \in SeedInputs : InsertVideo(v)
    \/ \E p \in VideoRels, u \in SeedUpdates : UpdateVideo(p, u)
    \/ \E i \in 1..MaxId : DeleteVideo(i)
    \/ \E frc \in BOOLEAN, so \in BOOLEAN : ProcessScan(frc, so)
    \/ ProcessFile
    \/ ProcessSummary
    \/ Terminate

Spec == Init /\ [][Next]_vars

\* Any sequence of store calls on one connection, with reconnects.
StoreNext ==
    \/ \E v \in StoreInputs : InsertVideo(v)
    \/ \E p \in VideoRels, u \in UpdateInputs : UpdateVideo(p, u)
    \/ \E i \in 1..MaxId : DeleteVideo(i)
    \/ \E i \in 1..MaxId, e \in UpdateEmbeddingInputs : UpdateEmbedding(i, e)
    \/ Close

StoreSpec == Init /\ [][StoreNext]_vars

(***************************************************************************)
(* search.py and the search methods of db.py                               *)
(***************************************************************************)
RRF_K == 60

\* Scores are floats in the code; here they are exact fractions n/d with
\* d > 0, compared by cross-multiplication.
Rat(n, d) == [n |-> n, d |-> d]

RatAdd(x, y) == Rat(x.n * y.d + y.n * x.d, x.d * y.d)

RatEq(x, y) == x.n * y.d = y.n * x.d

RatLess_OrEqual(x, y) == x.n * y.d <= y.n * x.d

RatLess(x, y) == x.n * y.d < y.n * x.d

\* round(x, 6): the nearest multiple of one millionth.
round6(x) == Rat((2 * 1000000 * x.n + x.d) \div (2 * x.d), 1000000)

\* Query texts are sequences of one-character strings.
Whitespace == {" "}

\* `not text or not text.strip()`
IsBlank(text) == \A i \in DOMAIN text : text[i] \in Whitespace

\* Length of the longest prefix of q whose characters are all in S.
RECURSIVE Run(_, _)
Run(q, S) ==
    IF q = <<>> \/ Head(q) \notin S THEN 0 ELSE 1 + Run(Tail(q), S)

\* Length of the longest prefix of q with no character in S.
RECURSIVE RunNot(_, _)
RunNot(q, S) ==
    IF q = <<>> \/ Head(q) \in S THEN 0 ELSE 1 + RunNot(Tail(q), S)

Drop(q, n) == SubSeq(q, n + 1, Len(q))

\* str.split() without arguments
RECURSIVE split(_)
split(q) ==
    IF q = <<>> THEN <<>>
    ELSE IF Head(q) \in Whitespace THEN split(Tail(q))
    ELSE LET n == RunNot(q, Whitespace)
         IN  <<SubSeq(q, 1, n)>> \o split(Drop(q, n))

\* sep.join(parts) for sequences of characters
RECURSIVE JoinChars(_, _)
JoinChars(parts, sep) ==
    IF parts = <<>> THEN <<>>
    ELSE IF Len(parts) = 1 THEN parts[1]
    ELSE parts[1] \o sep \o JoinChars(Tail(parts), sep)

\* " OR ".join(f'"{term}"' for term in terms if term.strip())
QuotedOr(terms) ==
    LET kept == SelectSeq(terms, LAMBDA t : ~IsBlank(t))
    IN  JoinChars([i \in DOMAIN kept |-> <<"\"">> \o kept[i] \o <<"\"">>],
                  <<" ", "O", "R", " ">>)

(***************************************************************************)
(* The FTS5 table videos_fts: query syntax, unicode61 tokens, MATCH.       *)
(***************************************************************************)
\* Characters that may appear in an FTS5 bareword; they are also the
\* token characters of the unicode61 tokenizer.
BarewordChars == {"s", "e", "a", "u", "n", "O", "R"}

\* The string after an opening double quote: "" inside it is one quote
\* character; ok is FALSE when the string is not terminated.
RECURSIVE ReadString(_, _)
ReadString(q, acc) ==
    IF q = <<>> THEN [ok |-> FALSE, v |-> acc, rest |-> <<>>]
    ELSE IF Head(q) = "\""
         THEN IF Len(q) >= 2 /\ q[2] = "\""
              THEN ReadString(Drop(q, 2), Append(acc, "\""))
              ELSE [ok |-> TRUE, v |-> acc, rest |-> Tail(q)]
         ELSE ReadString(Tail(q), Append(acc, Head(q)))

\* The tokens of an FTS5 query: strings (quoted or bareword) and the OR
\* keyword.  ok is FALSE for an unterminated string and for a character
\* that is neither whitespace, quote nor bareword character ("-" here).
RECURSIVE fts5_lex(_)
fts5_lex(q) ==
    IF q = <<>> THEN [ok |-> TRUE, toks |-> <<>>]
    ELSE IF Head(q) \in Whitespace THEN fts5_lex(Tail(q))
    ELSE IF Head(q) = "\""
         THEN LET s == ReadString(Tail(q), <<>>)
                  r == fts5_lex(s.rest)
              IN  IF ~s.ok THEN [ok |-> FALSE, toks |-> <<>>]
                  ELSE [ok |-> r.ok,
                        toks |-> <<[t |-> "STR", v |-> s.v]>> \o r.toks]
    ELSE IF Head(q) \in BarewordChars
         THEN LET n == Run(q, BarewordChars)
                  w == SubSeq(q, 1, n)
                  r == fts5_lex(Drop(q, n))
              IN  [ok |-> r.ok,
                   toks |-> <<[t |-> IF w = <<"O", "R">> THEN "OR"
                                     ELSE "STR", v |-> w]>> \o r.toks]
    ELSE [ok |-> FALSE, toks |-> <<>>]

\* phrase+ (OR phrase+)* : the phrases of each OR operand, which are
\* AND-ed.  An empty operand, hence an empty query, is a syntax error.
RECURSIVE fts5_groups(_, _)
fts5_groups(toks, cur) ==
    IF toks = <<>>
    THEN [ok |-> cur # <<>>, groups |-> <<cur>>]
    ELSE IF Head(toks).t = "OR"
         THEN LET r == fts5_groups(Tail(toks), <<>>)
              IN  [ok |-> cur # <<>> /\ r.ok, groups |-> <<cur>> \o r.groups]
         ELSE fts5_groups(Tail(toks), Append(cur, Head(toks).v))

\* unicode61 folds case.
LowerChar(c) == CASE c = "O" -> "o" [] c = "R" -> "r" [] OTHER -> c

RECURSIVE Concat(_)
Concat(chars) ==
    IF chars = <<>> THEN "" ELSE LowerChar(Head(chars)) \o Concat(Tail(chars))

\* unicode61 on the text of a phrase: the maximal runs of token characters.
RECURSIVE PhraseTokens(_)
PhraseTokens(v) ==
    IF v = <<>> THEN <<>>
    ELSE IF Head(v) \notin BarewordChars THEN PhraseTokens(Tail(v))
    ELSE LET n == Run(v, BarewordChars)
         IN  <<Concat(SubSeq(v, 1, n))>> \o PhraseTokens(Drop(v, n))

\* unicode61 on the column values the catalog holds; NULL has no tokens.
unicode61(value) ==
    CASE value = "sea"               -> <<"sea">>
      [] value = "sun"               -> <<"sun">>
      [] value = "sea sun"           -> <<"sea", "sun">>
      [] value = "sun sea"           -> <<"sun", "sea">>
      [] value = "a.mp4"             -> <<"a", "mp4">>
      [] value = "b.mp4"             -> <<"b", "mp4">>
      [] value = "c.mp4"             -> <<"c", "mp4">>
      [] value = "d.mp4"             -> <<"d", "mp4">>
      [] value = "IMG_1.MOV"         -> <<"img", "1", "mov">>
      [] value = "a beach at sunset" -> <<"a", "beach", "at", "sunset">>
      [] value = "[\"beach\", \"sunset\"]" -> <<"beach", "sunset">>
      [] value = "calm"              -> <<"calm">>
      [] value = "pan"               -> <<"pan">>
      [] value = "sunset"            -> <<"sunset">>
      [] value = "edited"            -> <<"edited">>
      [] value = "Lyon, FR"          -> <<"lyon", "fr">>
      [] value = "ERROR: Processing failed" -> <<"error", "processing", "failed">>
      [] OTHER                       -> <<>>

\* The phrase occurs in the token sequence of a column.
IsInfix(p, s) ==
    \E k \in 0..(Len(s) - Len(p)) : SubSeq(s, k + 1, k + Len(p)) = p

PhraseMatches(db, i, v) ==
    LET p == PhraseTokens(v)
    IN  p # <<>> /\ \E c \in FtsColumns : IsInfix(p, unicode61(db.fts[i][c]))

\* videos_fts MATCH query JOIN videos: ok is FALSE when FTS5 raises.
fts5_match(db, query) ==
    LET l == fts5_lex(query)
        g == fts5_groups(l.toks, <<>>)
    IN  IF ~l.ok \/ ~g.ok THEN [ok |-> FALSE, ids |-> {}]
        ELSE [ok |-> TRUE,
              ids |-> {i \in DOMAIN db.fts \cap Ids(db) :
                        \E k \in DOMAIN g.groups :
                            \A j \in DOMAIN g.groups[k] :
                                PhraseMatches(db, i, g.groups[k][j])}]

\* The ids of `ids` in the order of `order` (ORDER BY).
Sorted(ids, order) == SelectSeq(order, LAMBDA i : i \in ids)

\* The first n elements of s (LIMIT ?, [:n]) for n >= 0.
Take(s, n) == SubSeq(s, 1, IF n < Len(s) THEN n ELSE Len(s))

\* Database.search_fts with the LIMIT.  `order` is the bm25 order of the
\* index for this query, best (lowest rank) first; an exception of the
\* index gives the empty list.
search_fts_limit(db, query, limit, order) ==
    LET m == fts5_match(db, query)
        s == Sorted(m.ids, order)
        r == Take(s, limit)
    IN  IF ~m.ok THEN <<>>
        ELSE [k \in DOMAIN r |-> [video_id |-> r[k], rank |-> k - Len(s) - 1]]

\* search._fts_search
_fts_search(query, db, limit, order) ==
    LET results == search_fts_limit(db, query, limit, order)
        terms == split(query)
    IN  IF results # <<>> THEN results
        ELSE IF Len(terms) > 1
             THEN search_fts_limit(db, QuotedOr(terms), limit, order)
             ELSE results

fts_queries_RejectedOnly(query, db, limit, order) ==
    IF fts5_match(db, query).ok THEN <<query>>
    ELSE IF Len(split(query)) > 1 THEN <<query, QuotedOr(split(query))>>
    ELSE <<query>>

\* The texts _fts_search hands to db.search_fts, in call order.
fts_queries(query, db, limit, order) ==
    IF search_fts_limit(db, query, limit, order) # <<>> THEN <<query>>
    ELSE IF Len(split(query)) > 1 THEN <<query, QuotedOr(split(query))>>
    ELSE <<query>>

generate_embedding_NoBlankCheck(text, response) ==
    IF response = "raise" THEN [raised |-> "ResponseError", ret |-> None]
    ELSE IF Dim(response) = 0 THEN [raised |-> "RuntimeError", ret |-> None]
    ELSE [raised |-> None, ret |-> response]

\* embeddings.generate_embedding: `response` is what ollama.embed does
\* ("raise", or the first of the embeddings it returns; "vec0" is empty).
generate_embedding(text, response) ==
    IF IsBlank(text) THEN [raised |-> "ValueError", ret |-> None]
    ELSE IF response = "raise" THEN [raised |-> "ResponseError", ret |-> None]
    ELSE IF Dim(response) = 0 THEN [raised |-> "RuntimeError", ret |-> None]
    ELSE [raised |-> None, ret |-> response]

\* Database.vector_search: the `limit` nearest rows of videos_vec, `order`
\* being the distance order for this query vector; a query vector of
\* another dimension makes sqlite-vec raise.
vector_search(db, embedding, limit, order) ==
    LET s == Sorted(DOMAIN db.vec, order)
        r == Take(s, limit)
    IN  IF Dim(embedding) # EMBEDDING_DIMENSIONS
        THEN [raised |-> "OperationalError", ret |-> <<>>]
        ELSE [raised |-> None,
              ret |-> [k \in DOMAIN r |-> <<r[k], k>>]]

\* search._vector_search
_vector_search(query, db, limit, response, order) ==
    LET query_embedding == generate_embedding(query, response)
        rows == vector_search(db, query_embedding.ret, limit, order)
    IN  IF query_embedding.raised # None \/ rows.raised # None THEN <<>>
        ELSE [k \in DOMAIN rows.ret |->
                [video_id |-> rows.ret[k][1], distance |-> rows.ret[k][2]]]

\* Database.get_videos_by_ids: the rows of the SELECT in table order.
get_videos_by_ids_RowOrder(db, video_ids) ==
    LET rows == {i \in Ids(db) : \E k \in DOMAIN video_ids : video_ids[k] = i}
        s == Sorted(rows, [i \in 1..db.seq |-> i])
    IN  [k \in DOMAIN s |-> db.videos[s[k]]]

\* Database.get_videos_by_ids
get_videos_by_ids(db, video_ids) ==
    IF video_ids = <<>> THEN <<>>
    ELSE LET rows == {i \in Ids(db) :
                        \E k \in DOMAIN video_ids : video_ids[k] = i}
             lookup == [i \in rows |-> db.videos[i]]
             kept == SelectSeq(video_ids, LAMBDA vid : vid \in DOMAIN lookup)
         IN  [k \in DOMAIN kept |-> lookup[kept[k]]]

\* The docstring's formula, weight * (1 / (RRF_K + rank)).
rrf_term_Docstring(weight, rank) == Rat(weight, RRF_K + rank)

\* weight * (1.0 / (RRF_K + rank + 1))
rrf_term(weight, rank) == Rat(weight, RRF_K + rank + 1)

\* A dict of scores: its keys in insertion order and its values.
NoScores == [keys |-> <<>>, val |-> <<>>]

\* One `for rank, result in enumerate(results)` loop of hybrid_search,
\* from the 0-based `rank` of the first element of results on.
RECURSIVE Accumulate(_, _, _, _)
Accumulate(scores, results, weight, rank) ==
    IF results = <<>> THEN scores
    ELSE LET vid == Head(results).video_id
             old == IF vid \in DOMAIN scores.val THEN scores.val[vid]
                    ELSE Rat(0, 1)
             new == RatAdd(old, rrf_term(weight, rank))
         IN  Accumulate([keys |-> IF vid \in DOMAIN scores.val
                                  THEN scores.keys
                                  ELSE Append(scores.keys, vid),
                         val |-> (vid :> new) @@ scores.val],
                        Tail(results), weight, rank + 1)

\* sorted(keys, key=val, reverse=True): stable, equal scores keep the
\* order they have in keys.
RECURSIVE InsertDesc(_, _, _)
InsertDesc(s, x, val) ==
    IF s = <<>> THEN <<x>>
    ELSE IF RatLess(val[Head(s)], val[x]) THEN <<x>> \o s
    ELSE <<Head(s)>> \o InsertDesc(Tail(s), x, val)

RECURSIVE sorted_reverse(_, _)
sorted_reverse(keys, val) ==
    IF keys = <<>> THEN <<>>
    ELSE InsertDesc(sorted_reverse(SubSeq(keys, 1, Len(keys) - 1), val),
                    keys[Len(keys)], val)

InResults_FirstOnly(results, vid) ==
    results # <<>> /\ results[1].video_id = vid

\* any(r["video_id"] == vid for r in results)
InResults(results, vid) == \E k \in DOMAIN results : results[k].video_id = vid

\* hybrid_search, "Attach search metadata": the loop over the fetched
\* videos.
attach_search_metadata(videos, scores, fts_results, vec_results) ==
    [k \in DOMAIN videos |->
        Update(videos[k],
               [search_score |-> round6(scores.val[videos[k].id]),
                in_fts |-> InResults(fts_results, videos[k].id),
                in_vec |-> InResults(vec_results, videos[k].id)])]

\* hybrid_search from `if not scores` on.  The result holds the returned
\* list and, for inspection, the locals fts_results, vec_results and
\* scores.
rank_and_fetch(db, limit, fts_results, vec_results, scores) ==
    [fts_results |-> fts_results, vec_results |-> vec_results,
     scores |-> scores,
     ret |-> IF scores.keys = <<>> THEN <<>>
             ELSE attach_search_metadata(
                      get_videos_by_ids(
                          db, Take(sorted_reverse(scores.keys, scores.val),
                                   limit)),
                      scores, fts_results, vec_results)]

\* hybrid_search, "Reciprocal Rank Fusion": the two enumerate loops.
fuse(db, limit, fts_weight, vec_weight, fts_results, vec_results) ==
    rank_and_fetch(db, limit, fts_results, vec_results,
                   Accumulate(Accumulate(NoScores, fts_results, fts_weight, 0),
                              vec_results, vec_weight, 0))

\* search.hybrid_search; candidate_pool is limit * 3.
hybrid_search(query, db, limit, fts_weight, vec_weight, response, fts_order, vec_order) ==
    fuse(db, limit, fts_weight, vec_weight,
         _fts_search(query, db, limit * 3, fts_order),
         _vector_search(query, db, limit * 3, response, vec_order))

\* keyword_search from `if not results` on; search_score is
\* abs(results[i]["rank"]), and ranks are never positive.
fetch_keyword_hits(db, results) ==
    IF results = <<>> THEN <<>>
    ELSE LET videos == get_videos_by_ids(
                           db, [k \in DOMAIN results |-> results[k].video_id])
         IN  [i \in DOMAIN videos |->
                 Update(videos[i],
                        [search_score |-> IF i <= Len(results)
                                          THEN Rat(0 - results[i].rank, 1)
                                          ELSE Rat(0, 1),
                         in_fts |-> TRUE, in_vec |-> FALSE])]

keyword_search_Pool(query, db, limit, order) ==
    fetch_keyword_hits(db, _fts_search(query, db, limit * 3, order))

\* search.keyword_search
keyword_search(query, db, limit, order) ==
    fetch_keyword_hits(db, _fts_search(query, db, limit, order))

(***************************************************************************)
(* Search calls on catalogs built with the store operations                *)
(***************************************************************************)
MaxLimit == 4

\* insert_video argument for a clip with a one-line description.
SearchVideo(name, desc, emb) ==
    Update([relative_path |-> "clips/" \o name, file_name |-> name,
            file_hash |-> "md5(" \o name \o ")", scene_description |-> desc],
           IF emb = None THEN <<>> ELSE [embedding |-> emb])

RECURSIVE InsertAll(_, _)
InsertAll(db, videos) ==
    IF videos = <<>> THEN db
    ELSE InsertAll(insert_video(db, db, Head(videos)).disk, Tail(videos))

\* Four entries A, B, C, D (ids 1..4); B and D have vectors.
StoreABCD ==
    InsertAll(EmptyDb, << SearchVideo("a.mp4", "sea", None),
                          SearchVideo("b.mp4", "sea sun", "vec768:a"),
                          SearchVideo("c.mp4", "sun sea", None),
                          SearchVideo("d.mp4", "sun", "vec768:b") >>)

\* Two entries, then update_embedding for an id that has no entry.
StoreOrphan ==
    LET db == InsertAll(EmptyDb, << SearchVideo("a.mp4", "sea", None),
                                    SearchVideo("b.mp4", "sun", "vec768:a") >>)
    IN  update_embedding(db, db, 3, "vec768:b").disk

SearchStores ==
    { EmptyDb, StoreABCD, delete_video(StoreABCD, StoreABCD, 2).disk,
      StoreOrphan }

\* Query texts: sea / sea sun / sun- / sea- sun / empty / one space /
\* sea" sun
Queries ==
    { <<"s", "e", "a">>,
      <<"s", "e", "a", " ", "s", "u", "n">>,
      <<"s", "u", "n", "-">>,
      <<"s", "e", "a", "-", " ", "s", "u", "n">>,
      <<>>,
      <<" ">>,
      <<"s", "e", "a", "\"", " ", "s", "u", "n">> }

\* Orders in which an index ranks the ids for a query.
Orders == { <<1, 2, 3, 4>>, <<4, 2, 1, 3>>, <<4, 3, 2, 1>> }

Weights == {1, 2}

EmbedResponses == {"vec768:a", "vec3:a", "vec0", "raise"}

HybridCalls ==
    [fn : {"hybrid_search"}, query : Queries, limit : 0..MaxLimit,
     fts_weight : Weights, vec_weight : Weights, response : EmbedResponses,
     fts_order : Orders, vec_order : Orders]

MaxListLen == 3

IdLists == UNION { [1..n -> 1..4] : n \in 0..MaxListLen }

GetCalls == [fn : {"get_videos_by_ids"}, video_ids : IdLists]

FtsCalls ==
    [fn : {"_fts_search"}, query : Queries, limit : 0..MaxLimit,
     order : Orders]

\* A catalog and one search call about to be made on it.
SearchInit ==
    /\ tree = [r \in Rels |-> [content |-> <<"a">>, readable |-> TRUE]]
    /\ conn \in SearchStores
    /\ disk = conn
    /\ pc = "idle"
    /\ force = FALSE
    /\ scan_only = FALSE
    /\ existing_hashes = <<>>
    /\ new_files = <<>>
    /\ idx = 1
    /\ processed = 0
    /\ errors = 0
    /\ video_info = NoInfo
    /\ log = NoLog
    /\ errored = {}
    /\ \E a \in HybridCalls \cup GetCalls \cup FtsCalls
              \cup [fn : {"keyword_search"}, query : Queries,
                    limit : 0..MaxLimit, order : Orders] :
          outcome = [op |-> "call", raised |-> None, ret |-> 0, args |-> a]

Calling(fn) == outcome.op = "call" /\ outcome.args.fn = fn

\* search.hybrid_search(query, db, limit, fts_weight, vec_weight)
HybridSearch ==
    /\ Calling("hybrid_search")
    /\ LET a == outcome.args
           r == hybrid_search(a.query, conn, a.limit, a.fts_weight,
                              a.vec_weight, a.response, a.fts_order,
                              a.vec_order)
       IN  outcome' = [op |-> "hybrid_search", raised |-> None,
                       ret |-> r.ret, args |-> a,
                       fts_results |-> r.fts_results,
                       vec_results |-> r.vec_results, scores |-> r.scores]
    /\ UNCHANGED <<tree, conn, disk, runVars, errored>>

\* Database.get_videos_by_ids(video_ids)
GetVideosByIds ==
    /\ Calling("get_videos_by_ids")
    /\ outcome' = [op |-> "get_videos_by_ids", raised |-> None,
                   ret |-> get_videos_by_ids(conn, outcome.args.video_ids),
                   args |-> outcome.args]
    /\ UNCHANGED <<tree, conn, disk, runVars, errored>>

\* search._fts_search(query, db, limit)
FtsSearch ==
    /\ Calling("_fts_search")
    /\ LET a == outcome.args
       IN  outcome' = [op |-> "_fts_search", raised |-> None,
                       ret |-> _fts_search(a.query, conn, a.limit, a.order),
                       issued |-> fts_queries(a.query, conn, a.limit,
                                              a.order),
                       args |-> a]
    /\ UNCHANGED <<tree, conn, disk, runVars, errored>>

\* search.keyword_search(query, db, limit)
KeywordSearch ==
    /\ Calling("keyword_search")
    /\ LET a == outcome.args
       IN  outcome' = [op |-> "keyword_search", raised |-> None,
                       ret |-> keyword_search(a.query, conn, a.limit,
                                              a.order),
                       args |-> a]
    /\ UNCHANGED <<tree, conn, disk, runVars, errored>>

SearchNext == HybridSearch \/ GetVideosByIds \/ FtsSearch \/ KeywordSearch

SearchSpec == SearchInit /\ [][SearchNext]_vars

(***************************************************************************)
(* frames.py                                                               *)
(***************************************************************************)
NUM_KEYFRAMES == 4

\* Durations and timestamps are floats of seconds in the code; here they
\* are exact fractions.  ffprobe giving no duration is NoDuration.
NoDuration == [none |-> TRUE]

HalfSecond == Rat(1, 2)

Unusable_NoneOnly(duration) == duration = NoDuration

\* `duration is None or duration < 0.5`
Unusable(duration) == duration = NoDuration \/ RatLess(duration, HalfSecond)

\* `duration and duration >= 0.5`
Usable(duration) ==
    /\ duration # NoDuration
    /\ duration.n # 0
    /\ ~RatLess(duration, HalfSecond)

\* duration * i / (num_frames + 1)
timestamp_at_FromZero(duration, i, num_frames) ==
    Rat(duration.n * i, duration.d * (num_frames + 1))

\* duration * (i + 1) / (num_frames + 1)
timestamp_at(duration, i, num_frames) ==
    Rat(duration.n * (i + 1), duration.d * (num_frames + 1))

fallback_timestamps == <<Rat(1, 2), Rat(3, 1), Rat(8, 1), Rat(15, 1), Rat(30, 1)>>

\* The evenly spaced loop: every timestamp is requested; a request that
\* raises or yields no bytes adds no frame.  frames holds the numbers of
\* the requests that yielded one.
RECURSIVE EvenLoop(_, _, _, _, _, _)
EvenLoop(i, num_frames, source_path, duration, results, acc) ==
    IF i >= num_frames THEN acc
    ELSE LET req == [source_path |-> source_path,
                     timestamp |-> timestamp_at(duration, i, num_frames)]
             requested == Append(acc.requested, req)
             n == Len(requested)
         IN  EvenLoop(i + 1, num_frames, source_path, duration, results,
                      [requested |-> requested,
                       frames |-> IF results[n] = "jpg"
                                  THEN Append(acc.frames, n)
                                  ELSE acc.frames])

\* The fixed-timestamp loop: stops at the first request that raises and
\* once num_frames frames are collected.
RECURSIVE FixedLoop(_, _, _, _, _)
FixedLoop(k, num_frames, source_path, results, acc) ==
    IF k > Len(fallback_timestamps) THEN acc
    ELSE LET req == [source_path |-> source_path,
                     timestamp |-> fallback_timestamps[k]]
             requested == Append(acc.requested, req)
             n == Len(requested)
             frames == IF results[n] = "jpg" THEN Append(acc.frames, n)
                       ELSE acc.frames
             next == [requested |-> requested, frames |-> frames]
         IN  IF results[n] = "raise" THEN next
             ELSE IF results[n] = "jpg" /\ Len(frames) >= num_frames THEN next
             ELSE FixedLoop(k + 1, num_frames, source_path, results, next)

thumbnail_frame_Last(frames) == frames[Len(frames)]

\* `frames[0]`, the frame handed to _save_thumbnail
thumbnail_frame(frames) == frames[1]

\* frames.extract_keyframes.  probes gives what get_video_duration
\* (format) and _get_stream_duration (stream) return for a path; results
\* gives, for the n-th call of _extract_single_frame, "jpg", "None" (no
\* bytes) or "raise".  The result holds the probes made, the loop taken
\* (mode), the requests made, the frames returned, the exception raised,
\* the frame saved as thumbnail (0 when none was saved), the duration
\* settled on and video_info (v0) as the call leaves it.
extract_keyframes(v0, num_frames, thumb_dir, probes, results) ==
    LET absolute_path == v0["absolute_path"]
        source_path0 == IF Truthy(Get(v0, "lrf_path"))
                        THEN v0["lrf_path"] ELSE absolute_path
        duration0 == probes.format[source_path0]
        source_path == IF Unusable(duration0) THEN absolute_path
                       ELSE source_path0
        duration1 == IF Unusable(duration0) THEN probes.format[absolute_path]
                     ELSE duration0
        duration == IF Unusable(duration1) THEN probes.stream[source_path]
                    ELSE duration1
        probed == <<[kind |-> "format", path |-> source_path0]>>
                  \o (IF Unusable(duration0)
                      THEN <<[kind |-> "format", path |-> absolute_path]>>
                      ELSE <<>>)
                  \o (IF Unusable(duration1)
                      THEN <<[kind |-> "stream", path |-> source_path]>>
                      ELSE <<>>)
        start == [requested |-> <<>>, frames |-> <<>>]
        done == IF Usable(duration)
                THEN EvenLoop(0, num_frames, source_path, duration, results,
                              start)
                ELSE FixedLoop(1, num_frames, source_path, results, start)
    IN  [probed |-> probed,
         mode |-> IF Usable(duration) THEN "even" ELSE "fixed",
         requested |-> done.requested,
         duration |-> duration,
         raised |-> IF done.frames = <<>> THEN "ValueError" ELSE None,
         ret |-> IF done.frames = <<>> THEN <<>> ELSE done.frames,
         thumbnail |-> IF done.frames # <<>> /\ Truthy(thumb_dir)
                       THEN thumbnail_frame(done.frames) ELSE 0,
         info |-> IF done.frames # <<>> /\ Truthy(thumb_dir)
                  THEN Update(v0,
                              [thumbnail_path |-> thumb_dir \o "/"
                                   \o v0["file_hash"] \o ".jpg"])
                  ELSE v0]

(***************************************************************************)
(* extract_keyframes calls                                                 *)
(***************************************************************************)
MaxFrames == 4

\* 0.0 s, 0.4 s, 0.5 s, 10.5 s and no duration.
Durations ==
    {NoDuration, Rat(0, 1000), Rat(400, 1000), Rat(500, 1000),
     Rat(10500, 1000)}

ClipInfo(lrf_path) ==
    [absolute_path |-> "/root/clips/b.mp4", file_path |-> "clips/b.mp4",
     file_name |-> "b.mp4", file_hash |-> "md5(a65536)",
     lrf_path |-> lrf_path]

\* What the n-th call of _extract_single_frame does.
FrameResults ==
    { <<"jpg", "jpg", "jpg", "jpg", "jpg", "jpg">>,
      <<"raise", "jpg", "None", "jpg", "jpg", "jpg">>,
      <<"None", "None", "jpg", "raise", "jpg", "jpg">>,
      <<"None", "None", "None", "None", "None", "None">>,
      <<"raise", "raise", "raise", "raise", "raise", "raise">> }

FrameCalls ==
    { [fn |-> "extract_keyframes", video_info |-> ClipInfo(lrf),
       num_frames |-> n, results |-> res,
       probes |-> [format |-> ("/root/clips/b.LRF" :> dl)
                                 @@ ("/root/clips/b.mp4" :> da),
                   stream |-> ("/root/clips/b.LRF" :> NoDuration)
                                 @@ ("/root/clips/b.mp4" :> ds)]] :
        lrf \in {None, "/root/clips/b.LRF"}, n \in 0..MaxFrames,
        res \in FrameResults, dl \in Durations, da \in Durations,
        ds \in Durations }

\* A clip and one extract_keyframes call about to be made for it.
FramesInit ==
    /\ tree = [r \in Rels |-> [content |-> <<"a">>, readable |-> TRUE]]
    /\ conn = EmptyDb
    /\ disk = EmptyDb
    /\ pc = "idle"
    /\ force = FALSE
    /\ scan_only = FALSE
    /\ existing_hashes = <<>>
    /\ new_files = <<>>
    /\ idx = 1
    /\ processed = 0
    /\ errors = 0
    /\ video_info = NoInfo
    /\ log = NoLog
    /\ errored = {}
    /\ \E a \in FrameCalls :
          outcome = [op |-> "call", raised |-> None, ret |-> 0, args |-> a]

\* frames.extract_keyframes(video_info, num_frames, thumb_dir)
ExtractKeyframes ==
    /\ Calling("extract_keyframes")
    /\ LET a == outcome.args
           r == extract_keyframes(a.video_info, a.num_frames, thumbs_dir,
                                  a.probes, a.results)
       IN  /\ outcome' = [op |-> "extract_keyframes", raised |-> r.raised,
                          ret |-> r.ret, args |-> a,
                          requested |-> r.requested, duration |-> r.duration,
                          probed |-> r.probed, mode |-> r.mode,
                          thumbnail |-> r.thumbnail]
           /\ video_info' = r.info
    /\ UNCHANGED <<tree, conn, disk, pc, force, scan_only, existing_hashes,
                   new_files, idx, processed, errors, log, errored>>

FramesSpec == FramesInit /\ [][ExtractKeyframes]_vars

(***************************************************************************)
(* Fingerprinting at byte level (scanner.py compute_file_hash)             *)
(***************************************************************************)
\* str(n).encode(): the decimal digits of a size, one byte per digit
RECURSIVE str_encode(_)
str_encode(n) ==
    LET digits == <<"0", "1", "2", "3", "4", "5", "6", "7", "8", "9">>
    IN  IF n < 10 THEN <<digits[n + 1]>>
        ELSE str_encode(n \div 10) \o <<digits[(n % 10) + 1]>>

\* f.read(chunk) at the start of the file
read_head(data, chunk) ==
    SubSeq(data, 1, IF Len(data) < chunk THEN Len(data) ELSE chunk)

\* f.seek(-chunk, 2); f.read(chunk)
read_tail(data, chunk) == SubSeq(data, Len(data) - chunk + 1, Len(data))

\* The bytes fed to the digest by the three h.update calls, in order.
hash_updates_NoSize(data, chunk) ==
    LET size == Len(data)
    IN  read_head(data, chunk)
        \o (IF size > chunk * 2 THEN read_tail(data, chunk) ELSE <<>>)

hash_updates(data, chunk) ==
    LET size == Len(data)
    IN  read_head(data, chunk)
        \o (IF size > chunk * 2 THEN read_tail(data, chunk) ELSE <<>>)
        \o str_encode(size)

\* compute_file_hash(filepath, chunk_size) on a file holding `data`.
\* h.hexdigest() is determined by the bytes fed to the digest and by
\* nothing else, and distinct byte strings have distinct digests.
compute_file_hash_bytes(data, chunk) == [md5 |-> hash_updates(data, chunk)]

\* Longest file of the fingerprinting calls, in bytes.
MaxFileLen == 5

\* The files fingerprinted: every byte string of up to MaxFileLen bytes
\* over two byte values, which are digit characters so that a content
\* byte can look like a digit of the size.
Files == UNION {[1..n -> {"1", "2"}] : n \in 0..MaxFileLen}

\* Two files and the chunk size (1 or 2 bytes) they are about to be
\* fingerprinted with.
HashInit ==
    /\ tree = [r \in Rels |-> [content |-> <<"a">>, readable |-> TRUE]]
    /\ conn = EmptyDb
    /\ disk = EmptyDb
    /\ pc = "idle"
    /\ force = FALSE
    /\ scan_only = FALSE
    /\ existing_hashes = <<>>
    /\ new_files = <<>>
    /\ idx = 1
    /\ processed = 0
    /\ errors = 0
    /\ video_info = NoInfo
    /\ log = NoLog
    /\ errored = {}
    /\ \E f \in Files, g \in Files, c \in {1, 2} :
          outcome = [op |-> "call", raised |-> None, ret |-> 0,
                     args |-> [fn |-> "compute_file_hash", first |-> f,
                               second |-> g, chunk_size |-> c]]

\* The first file is fingerprinted twice and the second once.
ComputeFileHash ==
    /\ Calling("compute_file_hash")
    /\ LET a == outcome.args
       IN  outcome' = [op |-> "compute_file_hash", raised |-> None,
                       ret |-> <<compute_file_hash_bytes(a.first, a.chunk_size),
                                 compute_file_hash_bytes(a.second, a.chunk_size)>>,
                       again |-> compute_file_hash_bytes(a.first, a.chunk_size),
                       args |-> a]
    /\ UNCHANGED <<tree, conn, disk, pc, force, scan_only, existing_hashes,
                   new_files, idx, processed, errors, video_info, log,
                   errored>>

HashSpec == HashInit /\ [][ComputeFileHash]_vars

(***************************************************************************)
(* Properties                                                              *)
(***************************************************************************)
TypeOK ==
    /\ pc \in {"idle", "running"}
    /\ idx \in 1..(Len(new_files) + 1)
    /\ Ids(conn) \subseteq 1..MaxId

PathsOf(files) == {files[i].file_path : i \in DOMAIN files}

\* The files of the tree that are video files outside skipped directories
\* and are not resource-fork shadow files, in walk order.
RecognizedVideos == <<"DCIM/IMG_1.MOV", "clips/b.mp4">>

Fingerprint(rel) == compute_file_hash(tree[rel].content)

\* The fingerprint recorded for rel in `known` is the file's current one.
FingerprintKnown(known, rel) ==
    rel \in DOMAIN known /\ known[rel] = Fingerprint(rel)

EntriesOf(db, path) == {db.videos[i] : i \in IdsOfPath(db, path)}

HasVector(db, path) == \E i \in IdsOfPath(db, path) : i \in DOMAIN db.vec

\* The loop has handled at least one file of the current run; video_info
\* and log describe the last one.
Handled == pc = "running" /\ idx > 1

\* C1: every file of the work list that the loop has handled has exactly
\* one entry under its relative path, whatever happened in its stages.
C1_AdmittedFileCatalogedOnce ==
    Handled =>
        \A i \in 1..(idx - 1) :
            Cardinality(IdsOfPath(disk, new_files[i].file_path)) = 1

NoDuplicatePaths(db) ==
    \A i, j \in Ids(db) :
        db.videos[i].file_path = db.videos[j].file_path => i = j

\* C2: no two entries share a path, and a run without force neither admits
\* a file whose recorded fingerprint is its current one nor touches the
\* entry of such a file.
C2_UniquePathNoReingest ==
    /\ [](NoDuplicatePaths(conn) /\ NoDuplicatePaths(disk))
    /\ [][(pc = "running" /\ ~force) =>
            \A rel \in VideoRels :
                FingerprintKnown(existing_hashes, rel) =>
                    /\ rel \notin PathsOf(new_files)
                    /\ EntriesOf(disk', rel) = EntriesOf(disk, rel)
                    /\ HasVector(disk', rel) = HasVector(disk, rel)]_vars

\* C2 witness: a run without force has handled its whole work list while a
\* cataloged file with an unchanged fingerprint sits in the tree.
C2_Witness ==
    /\ pc = "running" /\ ~force /\ idx > Len(new_files)
    /\ \E rel \in VideoRels : FingerprintKnown(existing_hashes, rel)
    /\ Cardinality(Ids(disk)) = 2

\* C3: when a stage raised for the handled file, one entry is written for
\* it with the metadata obtained, null analysis fields, the error sentinel
\* as description and no vector.
C3_StageFailureStillCataloged ==
    (Handled /\ log.raised_in \in {"metadata", "frames", "embedding"}) =>
        /\ Cardinality(IdsOfPath(disk, video_info.file_path)) = 1
        /\ \A e \in EntriesOf(disk, video_info.file_path) :
              /\ e.scene_description = ERROR_DESCRIPTION
              /\ e.tags = None /\ e.mood = None
              /\ e.camera_movement = None /\ e.time_of_day = None
              /\ e.duration_seconds = Get(video_info, "duration_seconds")
              /\ e.file_hash = video_info.file_hash
        /\ ~HasVector(disk, video_info.file_path)

\* C4: a scan without force selects no file that an earlier run over the
\* same tree sent through the failure path.
C4_FailedFileNotReselected ==
    (pc = "running" /\ ~force /\ idx = 1) =>
        PathsOf(new_files) \cap errored = {}

\* C5: after the loop handled a path that was already cataloged when the
\* run started, the path has one entry and it carries the fingerprint and
\* the description of this run.
C5_ReadmittedPathReplaced ==
    (Handled /\ video_info.file_path \in DOMAIN existing_hashes) =>
        /\ Cardinality(IdsOfPath(disk, video_info.file_path)) = 1
        /\ \A e \in EntriesOf(disk, video_info.file_path) :
              /\ e.file_hash = video_info.file_hash
              /\ e.scene_description = Get(video_info, "scene_description")

\* What a scan without force is to emit for the map `known`.
NewOrChanged(known) ==
    {RecognizedVideos[i] : i \in
        {j \in DOMAIN RecognizedVideos :
            /\ tree[RecognizedVideos[j]].readable
            /\ ~FingerprintKnown(known, RecognizedVideos[j])}}

\* The map `known` after the fingerprints of the emitted files are recorded.
RecordedMap(known, files) ==
    [p \in DOMAIN known \cup PathsOf(files) |->
        IF p \in PathsOf(files)
        THEN files[CHOOSE i \in DOMAIN files : files[i].file_path = p].file_hash
        ELSE known[p]]

\* C6: without force the work list is exactly the readable recognized
\* video files that are new or changed, and a scan of the same tree with
\* the emitted fingerprints recorded is empty.
C6_ScanEmitsNewOrChanged ==
    /\ (pc = "running" /\ ~force) =>
            PathsOf(new_files) = NewOrChanged(existing_hashes)
    /\ LET known == get_all_file_hashes(disk)
           first == scan_drive(tree, known, FALSE)
       IN  /\ PathsOf(first) = NewOrChanged(known)
           /\ Len(first) = Cardinality(PathsOf(first))
           /\ scan_drive(tree, RecordedMap(known, first), FALSE) = <<>>

\* C6 witness: a scan without force skipped a file with a known
\* fingerprint and emitted one whose recorded fingerprint differs.
C6_Witness ==
    /\ pc = "running" /\ ~force
    /\ \E rel \in VideoRels : FingerprintKnown(existing_hashes, rel)
    /\ \E rel \in PathsOf(new_files) : rel \in DOMAIN existing_hashes

\* The maps of known fingerprints a scan can be given.
KnownMaps ==
    UNION {[s -> Hashes] : s \in SUBSET {RecognizedVideos[i] :
                                            i \in DOMAIN RecognizedVideos}}

ReadableVideos ==
    SelectSeq(RecognizedVideos, LAMBDA rel : tree[rel].readable)

\* C7: with force the work list is every readable recognized video file,
\* and it is the same for every map of known fingerprints.
C7_ForceEmitsAll ==
    /\ (pc = "running" /\ force) =>
            [i \in DOMAIN new_files |-> new_files[i].file_path]
                = ReadableVideos
    /\ \A known \in KnownMaps :
            scan_drive(tree, known, TRUE) = scan_drive(tree, <<>>, TRUE)

\* C7 witness: a forced scan emitted a file whose fingerprint was known.
C7_Witness ==
    /\ pc = "running" /\ force
    /\ \E rel \in PathsOf(new_files) :
            FingerprintKnown(existing_hashes, rel)

\* C8: in scan_only mode a file whose metadata was extracted is counted as
\* processed and gets an entry with null analysis fields, no thumbnail and
\* no vector, whose description is not the error sentinel.
C8_ScanOnlyPersistsNulls ==
    (Handled /\ scan_only /\ log.raised_in # "metadata") =>
        /\ log.raised_in = None
        /\ log.analysis = "not_run"
        /\ Cardinality(IdsOfPath(disk, video_info.file_path)) = 1
        /\ \A e \in EntriesOf(disk, video_info.file_path) :
              /\ e.scene_description = None /\ e.tags = None
              /\ e.mood = None /\ e.camera_movement = None
              /\ e.time_of_day = None /\ e.thumbnail_path = None
        /\ ~HasVector(disk, video_info.file_path)

\* C9: the entry of the handled file has a vector exactly when its
\* analysis succeeded and the searchable text built from it is not empty.
C9_VectorIffAnalysed ==
    Handled =>
        (HasVector(disk, video_info.file_path)
            <=> (log.analysis = "ok" /\ log.search_text # None
                    /\ ~Blank(log.search_text)))

\* search_fts for a one-term query: the ids of the videos_fts rows with a
\* column holding the term, joined with videos.
search_fts(db, term) ==
    {i \in DOMAIN db.fts \cap Ids(db) :
        \E c \in FtsColumns : db.fts[i][c] = term}

LexicalConsistent(db) ==
    /\ DOMAIN db.fts = Ids(db)
    /\ \A i \in Ids(db) :
          \A c \in FtsColumns : db.fts[i][c] = db.videos[i][c]

\* C10: after every store call the lexical index has one row per entry id
\* with the entry's current text, so a query matches exactly the entries
\* whose current text holds the term.
C10_LexicalIndexConsistent ==
    /\ LexicalConsistent(conn)
    /\ LexicalConsistent(disk)
    /\ \A term \in {"Lyon, FR", "edited", "a beach at sunset", "b.mp4"} :
          search_fts(conn, term) =
              {i \in Ids(conn) :
                  \E c \in FtsColumns : conn.videos[i][c] = term}

\* C10 witness: an update has replaced indexed text of one entry after
\* another entry was deleted.
C10_Witness ==
    /\ outcome.op = "update_video" /\ outcome.raised = None
    /\ conn.seq = 2 /\ Cardinality(Ids(conn)) = 1
    /\ \E i \in Ids(conn) : conn.videos[i].scene_description = "edited"

\* Every vector of db is keyed by the id of an entry of db.  db.vec is a
\* function of the id (PRIMARY KEY of videos_vec), so an id never has two.
VectorsOwned(db) == DOMAIN db.vec \subseteq Ids(db)

\* C11: after any sequence of insert_video, update_embedding and
\* delete_video calls the vector index maps only ids of existing entries,
\* in the connection's view and in the committed store.
C11_VectorIndexOnExistingEntries ==
    VectorsOwned(conn) /\ VectorsOwned(disk)

\* Entries the connection sees that are not committed.  Every other store
\* call commits before returning, so these are rows of an insert_video
\* call that raised after its INSERT.
Pending == Ids(conn) \ Ids(disk)

\* C12: an insert_video call that returned has committed the entry and its
\* vector together, a call that raised has committed nothing, and no later
\* commit on the connection persists, without a vector, an entry left
\* behind by a call that raised.
C12_InsertAllOrNothing ==
    [][/\ outcome'.op = "insert_video" =>
            IF outcome'.raised = None THEN disk' = conn' ELSE disk' = disk
       /\ \A i \in Pending :
            i \in Ids(disk') => i \in DOMAIN disk'.vec]_vars

\* C13: when a run without force is terminated, the committed store is
\* left as it was, the file whose iteration was under way has no entry
\* recording its current fingerprint, and a non-forced scan of the same
\* tree selects exactly the files from that one on.
C13_TerminatedRunResumes ==
    [][(pc = "running" /\ outcome'.op = "terminated" /\ ~force) =>
            /\ disk' = disk
            /\ idx <= Len(new_files) =>
                    ~FingerprintKnown(get_all_file_hashes(disk'),
                                      new_files[idx].file_path)
            /\ scan_drive(tree', get_all_file_hashes(disk'), FALSE)
                    = SubSeq(new_files, idx, Len(new_files))]_vars

\* C14: get_videos_by_ids returns one entry for every position of the
\* input list whose id exists in the store, in the order of those
\* positions, each being the stored entry of that id, and nothing else;
\* for the empty list it returns the empty list.
C14_GetByIdsInInputOrder ==
    outcome.op = "get_videos_by_ids" =>
        LET ids == outcome.args.video_ids
            Existing(n) == {k \in 1..n : ids[k] \in Ids(conn)}
        IN  /\ Len(outcome.ret) = Cardinality(Existing(Len(ids)))
            /\ \A p \in Existing(Len(ids)) :
                    outcome.ret[Cardinality(Existing(p))] = conn.videos[ids[p]]
            /\ ids = <<>> => outcome.ret = <<>>

\* C14 witness: a list naming a deleted id between two existing ids given
\* in descending order.
C14_Witness ==
    /\ outcome.op = "get_videos_by_ids"
    /\ outcome.args.video_ids = <<3, 2, 1>>
    /\ 2 \notin Ids(conn)
    /\ Len(outcome.ret) = 2
    /\ outcome.ret[1].id = 3 /\ outcome.ret[2].id = 1

CandidateIds(results) == {results[k].video_id : k \in DOMAIN results}

\* The 0-based rank of vid in a candidate list that contains it.
RankIn(results, vid) ==
    (CHOOSE k \in DOMAIN results : results[k].video_id = vid) - 1

\* weight/(60 + r + 1) for a list containing vid at rank r, else nothing.
Contribution(results, weight, vid) ==
    IF vid \in CandidateIds(results)
    THEN Rat(weight, 60 + RankIn(results, vid) + 1)
    ELSE Rat(0, 1)

FusedTotal(o, vid) ==
    RatAdd(Contribution(o.fts_results, o.args.fts_weight, vid),
           Contribution(o.vec_results, o.args.vec_weight, vid))

IdsOf(results) == [k \in DOMAIN results |-> results[k].video_id]

HitIds(hits) == [k \in DOMAIN hits |-> hits[k].id]

\* C16: hybrid_search returns at most `limit` hits in descending order of
\* fused score; they are the `limit` best-scored candidates (all of them
\* when there are fewer); lexical [A, B, C] and vector [B, D] with equal
\* weights come back as B, A, D, C.
C16_TopLimitByFusedScore ==
    outcome.op = "hybrid_search" =>
        LET val == outcome.scores.val
            ids == HitIds(outcome.ret)
            returned == {ids[k] : k \in DOMAIN ids}
            limit == outcome.args.limit
        IN  /\ Len(ids) <= limit
            /\ \A j, k \in DOMAIN ids :
                    j < k => ~RatLess(val[ids[j]], val[ids[k]])
            /\ Len(ids) = IF Cardinality(DOMAIN val) < limit
                          THEN Cardinality(DOMAIN val) ELSE limit
            /\ returned \subseteq DOMAIN val
            /\ \A h \in returned : \A c \in DOMAIN val \ returned :
                    ~RatLess(val[h], val[c])
            /\ ( /\ IdsOf(outcome.fts_results) = <<1, 2, 3>>
                 /\ IdsOf(outcome.vec_results) = <<2, 4>>
                 /\ outcome.args.fts_weight = outcome.args.vec_weight
                 /\ limit >= 4 ) => ids = <<2, 1, 4, 3>>

\* The flags of every hit say in which candidate lists its id occurs, and
\* one of them is set.
HitFlagsExact(o) ==
    \A k \in DOMAIN o.ret :
        LET hit == o.ret[k]
        IN  /\ hit.in_fts <=> hit.id \in CandidateIds(o.fts_results)
            /\ hit.in_vec <=> hit.id \in CandidateIds(o.vec_results)
            /\ hit.in_fts \/ hit.in_vec

\* C17 as stated: the flags are exact and the score attached to a hit is
\* the fused total of its id.
C17_HitScoreIsFusedTotal ==
    outcome.op = "hybrid_search" =>
        /\ HitFlagsExact(outcome)
        /\ \A k \in DOMAIN outcome.ret :
                RatEq(outcome.ret[k].search_score,
                      FusedTotal(outcome, outcome.ret[k].id))

\* x is a whole number of millionths, at most half a millionth from y.
NearestMillionth(x, y) ==
    LET diff == x.n * y.d - y.n * 1000000
    IN  /\ x.d = 1000000
        /\ 2 * diff <= y.d /\ -(2 * diff) <= y.d

\* C17 amended: the flags are exact and the score attached to a hit is
\* the fused total of its id rounded to six decimal places.
C17_HitFlagsAndRoundedScore ==
    outcome.op = "hybrid_search" =>
        /\ HitFlagsExact(outcome)
        /\ \A k \in DOMAIN outcome.ret :
                NearestMillionth(outcome.ret[k].search_score,
                                 FusedTotal(outcome, outcome.ret[k].id))

\* C17 witness: hits found by the lexical list only, by the vector list
\* only and by both, one of them with a total that is not a whole number
\* of millionths.
C17_Witness ==
    /\ outcome.op = "hybrid_search"
    /\ \E k \in DOMAIN outcome.ret :
            outcome.ret[k].in_fts /\ ~outcome.ret[k].in_vec
    /\ \E k \in DOMAIN outcome.ret :
            ~outcome.ret[k].in_fts /\ outcome.ret[k].in_vec
    /\ \E k \in DOMAIN outcome.ret :
            /\ outcome.ret[k].in_fts /\ outcome.ret[k].in_vec
            /\ ~RatEq(outcome.ret[k].search_score,
                      FusedTotal(outcome, outcome.ret[k].id))

\* Embedding the query fails (blank text, ollama raises or returns no
\* embedding) or the lookup in videos_vec raises (wrong dimension).
VectorPathFails(a) ==
    \/ IsBlank(a.query)
    \/ a.response \in {"raise", "vec0"}
    \/ Dim(a.response) # EMBEDDING_DIMENSIONS

\* C18: when the vector path fails hybrid_search returns normally with an
\* empty vector candidate list; the hits are the first `limit` lexical
\* candidates in lexical order, each with in_vec false, and there are
\* none when the lexical list is empty.
C18_VectorFailureKeepsLexical ==
    (outcome.op = "hybrid_search" /\ VectorPathFails(outcome.args)) =>
        /\ outcome.raised = None
        /\ outcome.vec_results = <<>>
        /\ HitIds(outcome.ret) =
                Take(IdsOf(outcome.fts_results), outcome.args.limit)
        /\ \A k \in DOMAIN outcome.ret :
                outcome.ret[k].in_fts /\ ~outcome.ret[k].in_vec
        /\ outcome.fts_results = <<>> => outcome.ret = <<>>

\* C18 witness: the catalog has vectors, the lookup raises for a query
\* vector of three floats, and two lexical candidates come back.
C18_Witness ==
    /\ outcome.op = "hybrid_search"
    /\ outcome.args.response = "vec3:a"
    /\ ~IsBlank(outcome.args.query)
    /\ DOMAIN conn.vec # {}
    /\ Len(outcome.ret) >= 2
    /\ \A k \in DOMAIN outcome.ret : ~outcome.ret[k].in_vec

\* The ids matched by one term searched on its own, quoted.
TermMatches(db, term) ==
    fts5_match(db, <<"\"">> \o term \o <<"\"">>).ids

\* C19: when the index rejects the raw query text of one or more terms,
\* _fts_search returns candidates matched by at least one of the terms
\* searched on its own, as many of them as the limit allows.
C19_RejectedQueryFallsBackPerTerm ==
    (/\ outcome.op = "_fts_search"
     /\ ~fts5_match(conn, outcome.args.query).ok
     /\ split(outcome.args.query) # <<>>) =>
        LET terms == split(outcome.args.query)
            any == UNION {TermMatches(conn, terms[k]) : k \in DOMAIN terms}
        IN  /\ CandidateIds(outcome.ret) \subseteq any
            /\ Len(outcome.ret) = IF Cardinality(any) < outcome.args.limit
                                  THEN Cardinality(any)
                                  ELSE outcome.args.limit

\* C20: when extract_keyframes settles on a duration D of at least half a
\* second it requests num_frames frames, the i-th (from 0) at
\* D*(i+1)/(num_frames+1); the timestamps ascend, lie strictly between 0
\* and D, and are D/5, 2D/5, 3D/5, 4D/5 for four frames.
C20_EvenlySpacedTimestamps ==
    (outcome.op = "extract_keyframes" /\ Usable(outcome.duration)) =>
        LET D == outcome.duration
            n == outcome.args.num_frames
            ts == [k \in DOMAIN outcome.requested |->
                        outcome.requested[k].timestamp]
        IN  /\ Len(ts) = n
            /\ \A i \in 0..(n - 1) :
                    /\ RatEq(ts[i + 1], Rat(D.n * (i + 1), D.d * (n + 1)))
                    /\ RatLess(Rat(0, 1), ts[i + 1])
                    /\ RatLess(ts[i + 1], D)
            /\ \A i \in 1..(n - 1) : RatLess(ts[i], ts[i + 1])
            /\ n = 4 => \A k \in 1..4 : RatEq(ts[k], Rat(k * D.n, 5 * D.d))

\* C20 witness: four frames requested of a 10.5 s clip whose preview has
\* no usable duration.
C20_Witness ==
    /\ outcome.op = "extract_keyframes"
    /\ outcome.args.num_frames = 4
    /\ outcome.duration = Rat(10500, 1000)
    /\ Unusable(outcome.args.probes.format["/root/clips/b.LRF"])
    /\ outcome.args.video_info.lrf_path # None
    /\ Len(outcome.requested) = 4

\* The two files differ in a way the fingerprint is to tell apart: in
\* size, in a byte of the leading chunk, or, both being larger than twice
\* the chunk, in a byte of the trailing chunk.
FingerprintDistinguishes(f, g, chunk) ==
    \/ Len(f) # Len(g)
    \/ read_head(f, chunk) # read_head(g, chunk)
    \/ /\ Len(f) > 2 * chunk
       /\ Len(g) > 2 * chunk
       /\ read_tail(f, chunk) # read_tail(g, chunk)

\* C21: fingerprinting the same file twice gives the same hash, and two
\* files that differ in size, in a byte of the leading chunk or (when
\* larger than twice the chunk) in a byte of the trailing chunk get
\* different hashes, the digest being collision-free.
C21_FingerprintOfContentAndSize ==
    outcome.op = "compute_file_hash" =>
        LET a == outcome.args
        IN  /\ outcome.again = outcome.ret[1]
            /\ (a.first = a.second => outcome.ret[1] = outcome.ret[2])
            /\ (FingerprintDistinguishes(a.first, a.second, a.chunk_size)
                    => outcome.ret[1] # outcome.ret[2])

\* C21 witness: two files of the same size, larger than twice the chunk,
\* with the same leading chunk and different trailing chunks, have been
\* fingerprinted.
C21_Witness ==
    /\ outcome.op = "compute_file_hash"
    /\ LET a == outcome.args
       IN  /\ Len(a.first) = Len(a.second)
           /\ Len(a.first) > 2 * a.chunk_size
           /\ a.chunk_size = 2
           /\ read_head(a.first, a.chunk_size) = read_head(a.second, a.chunk_size)
           /\ read_tail(a.first, a.chunk_size) # read_tail(a.second, a.chunk_size)
           /\ outcome.ret[1] # outcome.ret[2]

\* C22: when the vision analysis failed for the handled file, the file has
\* one entry with the error sentinel as description, null tags, mood,
\* camera movement and time of day, and no vector.
C22_VisionFailurePersistedWithError ==
    (Handled /\ log.analysis = "failed") =>
        /\ Cardinality(IdsOfPath(disk, video_info.file_path)) = 1
        /\ \A e \in EntriesOf(disk, video_info.file_path) :
              /\ e.scene_description = ERROR_DESCRIPTION
              /\ e.tags = None /\ e.mood = None
              /\ e.camera_movement = None /\ e.time_of_day = None
        /\ ~HasVector(disk, video_info.file_path)

\* The position at which fusion first meets vid: lexical candidates in
\* lexical rank order, then the vector candidates that are not lexical
\* candidates, in vector rank order.
FirstEncounter(o, vid) ==
    IF vid \in CandidateIds(o.fts_results)
    THEN RankIn(o.fts_results, vid)
    ELSE Len(o.fts_results) + RankIn(o.vec_results, vid)

\* C23: two returned hits with equal fused score come back in the order in
\* which fusion first met their ids (lexical candidates in lexical rank
\* order, then vector-only candidates in vector rank order); nothing else
\* decides a tie.
C23_TiesInFirstEncounterOrder ==
    outcome.op = "hybrid_search" =>
        \A j, k \in DOMAIN outcome.ret :
            (/\ j < k
             /\ RatEq(outcome.scores.val[outcome.ret[j].id],
                      outcome.scores.val[outcome.ret[k].id]))
                => FirstEncounter(outcome, outcome.ret[j].id)
                     < FirstEncounter(outcome, outcome.ret[k].id)

\* C23 witness: two hits found by both lists at swapped ranks have the
\* same fused score and are returned in lexical rank order, against the
\* vector rank order and against the order of their ids.
C23_Witness ==
    /\ outcome.op = "hybrid_search"
    /\ \E j \in DOMAIN outcome.ret :
          /\ j + 1 \in DOMAIN outcome.ret
          /\ RatEq(outcome.scores.val[outcome.ret[j].id],
                   outcome.scores.val[outcome.ret[j + 1].id])
          /\ outcome.ret[j].in_fts /\ outcome.ret[j].in_vec
          /\ outcome.ret[j + 1].in_fts /\ outcome.ret[j + 1].in_vec
          /\ RankIn(outcome.fts_results, outcome.ret[j].id)
                < RankIn(outcome.fts_results, outcome.ret[j + 1].id)
          /\ RankIn(outcome.vec_results, outcome.ret[j].id)
                > RankIn(outcome.vec_results, outcome.ret[j + 1].id)
          /\ outcome.ret[j].id > outcome.ret[j + 1].id

\* The probes duration discovery may make for a call, in order: the
\* preview's container duration when there is a preview, the original's
\* container duration, the original's stream-level duration.
ProbeOrder(a) ==
    (IF a.video_info["lrf_path"] # None
     THEN <<[kind |-> "format", path |-> a.video_info["lrf_path"]]>>
     ELSE <<>>)
    \o <<[kind |-> "format", path |-> a.video_info["absolute_path"]],
         [kind |-> "stream", path |-> a.video_info["absolute_path"]]>>

ProbeReport(a, p) == a.probes[p.kind][p.path]

\* The probe reports a duration of at least half a second.
ReportsDuration(a, p) ==
    /\ ProbeReport(a, p) # NoDuration
    /\ 2 * ProbeReport(a, p).n >= ProbeReport(a, p).d

ProbeIndex(a, p) == CHOOSE k \in DOMAIN ProbeOrder(a) : ProbeOrder(a)[k] = p

\* The position in ProbeOrder at which discovery is to stop.
StopAt(a) ==
    IF \E k \in DOMAIN ProbeOrder(a) : ReportsDuration(a, ProbeOrder(a)[k])
    THEN CHOOSE k \in DOMAIN ProbeOrder(a) :
            /\ ReportsDuration(a, ProbeOrder(a)[k])
            /\ \A m \in 1..(k - 1) : ~ReportsDuration(a, ProbeOrder(a)[m])
    ELSE Len(ProbeOrder(a))

\* C24: extract_keyframes probes the preview's container duration (when
\* there is a preview), then the original's container duration, then the
\* original's stream-level duration, in that order, up to and including
\* the first probe that reports at least 0.5 s and no further; it samples
\* at the reported duration, or at fixed offsets when no probe reports
\* one.
C24_DurationProbeOrder ==
    outcome.op = "extract_keyframes" =>
        LET a == outcome.args
            probed == outcome.probed
        IN  /\ {probed[i] : i \in DOMAIN probed}
                    = {ProbeOrder(a)[k] : k \in 1..StopAt(a)}
            /\ \A i, j \in DOMAIN probed :
                    i < j => ProbeIndex(a, probed[i]) <= ProbeIndex(a, probed[j])
            /\ IF ReportsDuration(a, ProbeOrder(a)[StopAt(a)])
               THEN /\ outcome.mode = "even"
                    /\ outcome.duration
                            = ProbeReport(a, ProbeOrder(a)[StopAt(a)])
               ELSE outcome.mode = "fixed"

\* C24 witness: the preview reports 0.4 s, the original's container
\* reports nothing and its stream reports 10.5 s: all three were probed
\* and the frames are evenly spaced over 10.5 s.
C24_Witness ==
    /\ outcome.op = "extract_keyframes"
    /\ Len(outcome.probed) = 3
    /\ outcome.args.video_info["lrf_path"] # None
    /\ ProbeReport(outcome.args, outcome.probed[1]) = Rat(400, 1000)
    /\ ProbeReport(outcome.args, outcome.probed[2]) = NoDuration
    /\ outcome.probed[3].kind = "stream"
    /\ outcome.mode = "even"
    /\ outcome.duration = Rat(10500, 1000)
    /\ outcome.args.num_frames = 4
    /\ Len(outcome.requested) = 4

\* The number of frames obtained by the first k extraction attempts.
Collected(results, k) == Cardinality({m \in 1..k : results[m] = "jpg"})

\* The fixed-offset loop is to stop after attempt k: the attempt failed
\* outright, or num_frames frames have been collected.
StopsAfter(results, num_frames, k) ==
    results[k] = "raise" \/ Collected(results, k) >= num_frames

\* C25: with no usable duration, extract_keyframes requests the offsets
\* 0.5, 3, 8, 15, 30 s in that order, up to and including the first
\* attempt that fails outright or completes num_frames frames and no
\* further; it returns at most num_frames frames, in timestamp order.
C25_FixedOffsetsStopEarly ==
    (outcome.op = "extract_keyframes" /\ outcome.mode = "fixed") =>
        LET a == outcome.args
            n == Len(outcome.requested)
        IN  /\ n <= Len(fallback_timestamps)
            /\ \A k \in 1..n :
                    /\ outcome.requested[k].timestamp = fallback_timestamps[k]
                    /\ k < n => ~StopsAfter(a.results, a.num_frames, k)
            /\ n < Len(fallback_timestamps)
                    => StopsAfter(a.results, a.num_frames, n)
            /\ Len(outcome.ret) <= a.num_frames
            /\ \A j, k \in DOMAIN outcome.ret :
                    j < k => outcome.ret[j] < outcome.ret[k]

\* The extraction attempts made by the call that yielded a frame, as the
\* set of their numbers.
Extracted(o) ==
    {k \in DOMAIN o.requested : o.args.results[k] = "jpg"}

\* C26: in the evenly spaced path every timestamp is attempted whatever
\* the earlier attempts did, the returned frames are exactly the
\* successfully extracted ones in timestamp order, and the first of them
\* is saved as the thumbnail; in either path the call raises, and returns
\* nothing, exactly when no frame was obtained.
C26_FailedFrameSkippedEmptyRaises ==
    outcome.op = "extract_keyframes" =>
        /\ outcome.mode = "even" =>
              /\ Len(outcome.requested) = outcome.args.num_frames
              /\ outcome.raised = None =>
                    /\ {outcome.ret[j] : j \in DOMAIN outcome.ret}
                            = Extracted(outcome)
                    /\ \A j, k \in DOMAIN outcome.ret :
                            j < k => outcome.ret[j] < outcome.ret[k]
                    /\ outcome.thumbnail = outcome.ret[1]
                    /\ "thumbnail_path" \in DOMAIN video_info
        /\ Extracted(outcome) = {} <=> outcome.raised = "ValueError"
        /\ outcome.raised = None => outcome.ret # <<>>
        /\ outcome.raised # None => outcome.thumbnail = 0

\* C26 witness: of four evenly spaced attempts the first raised and the
\* third gave no bytes; the second and fourth frames are returned and the
\* second is the thumbnail.
C26_Witness ==
    /\ outcome.op = "extract_keyframes"
    /\ outcome.mode = "even"
    /\ outcome.args.num_frames = 4
    /\ outcome.args.results[1] = "raise"
    /\ outcome.args.results[3] = "None"
    /\ outcome.ret = <<2, 4>>
    /\ outcome.thumbnail = 2
    /\ outcome.raised = None

\* The fingerprint recorded for rel in a map of known fingerprints, None
\* when there is none.
RecordedFor(known, rel) == IF rel \in DOMAIN known THEN known[rel] ELSE None

\* C27: during a run whose scan found a recognized video file unreadable,
\* the file is not in the work list, every other readable recognized file
\* that is new, changed or forced is, the store records no fingerprint
\* for the unreadable file beyond what it held at the scan, and a later
\* scan that can read the file selects it unless its current fingerprint
\* was already on record.
C27_UnreadableFileSkippedAndRetried ==
    pc = "running" =>
        \A rel \in VideoRels :
            ~tree[rel].readable =>
                /\ rel \notin PathsOf(new_files)
                /\ \A other \in VideoRels \ {rel} :
                       (/\ tree[other].readable
                        /\ force \/ ~FingerprintKnown(existing_hashes, other))
                            => other \in PathsOf(new_files)
                /\ RecordedFor(get_all_file_hashes(disk), rel)
                       = RecordedFor(existing_hashes, rel)
                /\ ~FingerprintKnown(existing_hashes, rel) =>
                       rel \in PathsOf(
                           scan_drive([tree EXCEPT ![rel].readable = TRUE],
                                      get_all_file_hashes(disk), FALSE))

\* C27 witness: a run has gone through its whole work list; the first file
\* walked was unreadable at the scan and the file walked after it was
\* emitted.
C27_Witness ==
    /\ pc = "running" /\ idx > Len(new_files)
    /\ ~tree["DCIM/IMG_1.MOV"].readable
    /\ PathsOf(new_files) = {"clips/b.mp4"}
    /\ ~FingerprintKnown(existing_hashes, "DCIM/IMG_1.MOV")

\* C28: when the vector source yields no candidates, hybrid_search with
\* default weights and keyword_search return the same entry ids in the
\* same order for the same catalog, query and limit.
C28_HybridWithoutVectorsIsKeyword ==
    /\ (/\ outcome.op = "hybrid_search"
        /\ outcome.vec_results = <<>>
        /\ outcome.args.fts_weight = 1 /\ outcome.args.vec_weight = 1)
            => HitIds(outcome.ret)
                = HitIds(keyword_search(outcome.args.query, conn,
                                        outcome.args.limit,
                                        outcome.args.fts_order))
    /\ outcome.op = "keyword_search" =>
            \A response \in EmbedResponses, vec_order \in Orders :
                LET a == outcome.args
                    h == hybrid_search(a.query, conn, a.limit, 1, 1,
                                       response, a.order, vec_order)
                IN  h.vec_results = <<>>
                        => HitIds(h.ret) = HitIds(outcome.ret)

\* C28 witness: hybrid_search with default weights got no vector
\* candidates from a catalog that holds vectors, found more lexical
\* candidates than the limit, and returned two hits.
C28_Witness ==
    /\ outcome.op = "hybrid_search"
    /\ outcome.vec_results = <<>>
    /\ conn.vec # <<>>
    /\ outcome.args.fts_weight = 1 /\ outcome.args.vec_weight = 1
    /\ outcome.args.limit = 2
    /\ Len(outcome.fts_results) > 2
    /\ Len(outcome.ret) = 2
    /\ outcome.ret[1].id > outcome.ret[2].id

\* C29: _fts_search first asks the index for the raw query; when that
\* yields no candidate (rejected, or accepted without a match) and the
\* query has at least two whitespace-delimited terms it asks once more,
\* for the quoted-OR text, and returns that answer; when the raw query
\* yields a candidate nothing more is asked and that answer is returned;
\* the index is never asked more than twice.
C29_RetryOnEmptyRawResult ==
    outcome.op = "_fts_search" =>
        LET a == outcome.args
            raw == search_fts_limit(conn, a.query, a.limit, a.order)
            terms == split(a.query)
        IN  /\ Len(outcome.issued) \in {1, 2}
            /\ outcome.issued[1] = a.query
            /\ raw # <<>> =>
                    /\ outcome.issued = <<a.query>>
                    /\ outcome.ret = raw
            /\ (raw = <<>> /\ Len(terms) >= 2) =>
                    /\ outcome.issued = <<a.query, QuotedOr(terms)>>
                    /\ outcome.ret = search_fts_limit(conn, QuotedOr(terms),
                                                      a.limit, a.order)

\* C29 witness: a two-term query that the index accepted and that matched
\* nothing was retried as quoted OR, and the retry found both entries.
C29_Witness ==
    /\ outcome.op = "_fts_search"
    /\ fts5_match(conn, outcome.args.query).ok
    /\ fts5_match(conn, outcome.args.query).ids = {}
    /\ Len(outcome.issued) = 2
    /\ Len(outcome.ret) = 2

\* The value update_video stores for a named column.
StoredValue(u, col) ==
    IF col = "tags" /\ isinstance_list(u[col]) THEN json_dumps(u[col])
    ELSE u[col]

\* What a successful update_video(p, u) is to do to the store the
\* connection sees: the entry with path p takes the named values and keeps
\* the others, its lexical row mirrors it, and every other entry, every
\* other lexical row and the vector index stay as they are.
UpdatesOnly(old, new, p, u) ==
    LET hit == IdsOfPath(old, p)
    IN  /\ Ids(new) = Ids(old)
        /\ \A i \in Ids(old) :
              IF i \in hit
              THEN \A col \in Columns :
                      new.videos[i][col] =
                          IF col \in DOMAIN u THEN StoredValue(u, col)
                          ELSE old.videos[i][col]
              ELSE new.videos[i] = old.videos[i]
        /\ DOMAIN new.fts = DOMAIN old.fts
        /\ \A i \in DOMAIN old.fts :
              new.fts[i] = IF i \in hit THEN FtsRow(new.videos[i])
                           ELSE old.fts[i]
        /\ new.vec = old.vec
        /\ new.seq = old.seq

\* C30: a successful update_video(path, updates) changes only the named
\* fields of the entry with that path and mirrors them into that entry's
\* lexical row; every other entry, every other lexical row and the whole
\* vector index, the updated entry's vector included, are as before, and
\* the result is committed.
C30_UpdateTouchesNamedFieldsOnly ==
    [][(outcome'.op = "update_video" /\ outcome'.raised = None) =>
            /\ \E p \in VideoRels, u \in UpdateInputs :
                    UpdatesOnly(conn, conn', p, u)
            /\ disk' = conn'
            /\ \A i \in DOMAIN conn.vec :
                    i \in DOMAIN disk'.vec /\ disk'.vec[i] = conn.vec[i]]_vars

\* C30 witness: the description of an entry that has a vector was
\* replaced by update_video, the lexical row holds the new text and the
\* vector is still the one stored with the entry.
C30_Witness ==
    /\ outcome.op = "update_video" /\ outcome.raised = None
    /\ \E i \in Ids(conn) :
          /\ conn.videos[i].scene_description = "edited"
          /\ conn.fts[i].scene_description = "edited"
          /\ i \in DOMAIN conn.vec
          /\ conn.vec[i] = "vec768:a"
    /\ Cardinality(Ids(conn)) = 2

====
